---- MODULE Spec2Model ----
(***************************************************************************)
(* A model of gnupg.py: the subprocess I/O pipeline (_handle_io,           *)
(* sign_file, _collect_output, _copy_data, _read_response, _read_data),    *)
(* the status handlers of the Result classes, and the argument sanitiser   *)
(* (_fix_unsafe, _is_allowed, _sanitise, _sanitise_list, GPG.__init__,     *)
(* GPG.make_args).                                                         *)
(*                                                                         *)
(* Text is modelled as a sequence of symbols.  A symbol is either one of   *)
(* the punctuation characters the code inspects (space, underscore,        *)
(* hyphen, quote, ...) or a run of word characters (letters, digits) none  *)
(* of which the code looks into.  Every operation of the code on text      *)
(* (find, split, replace, startswith, the regular expression of            *)
(* _fix_unsafe) looks only at these punctuation characters, so it acts on  *)
(* the symbols exactly as it does on the characters.  In the lines of the  *)
(* diagnostic channel the code looks at white space only, so there a       *)
(* symbol is a space or a maximal run of other characters.                 *)
(***************************************************************************)
EXTENDS Integers, Sequences, FiniteSets, TLC

----------------------------------------------------------------------------
(* Bounds of the model *)

\* capacity, in items, of each of the three pipes between parent and child
PipeCap == 1
\* largest number of chunks the child writes to its output channel
MaxOut == 1
\* largest number of lines the child writes to its diagnostic channel
MaxErr == 2
\* largest number of full chunks in the input data of a call
MaxChunks == 2
\* largest number of status events fed to a Result in the handler model
MaxEvents == 2
\* largest number of per-call arguments handed to make_args
MaxArgs == 2
\* largest number a status field is parsed as
MaxInt == 31
\* largest number of symbols in a text handed to _fix_unsafe
MaxText == 3
\* largest number of words in an argument handed to _sanitise
MaxWords == 3
\* largest number of symbols in a line handed to _read_response
MaxLine == 7

\* largest number of lines in the output list_keys reads
MaxLines == 3

\* largest number of keyword arguments handed to gen_key_input
MaxKwargs == 2

\* the size of a read in _copy_data
CHUNK == 1024

----------------------------------------------------------------------------
(* Text helpers: the Python string operations the code uses *)

\* the value None where the code holds either None or a text
None == <<"<None>">>

SP == " "
US == "_"
HY == "-"
SQ == "'"
DQ == "\""

\* str.find(ch) > 0 : the character occurs, and its first occurrence is not
\* at the very start of the text
FindPos(s, ch) ==
    /\ \E i \in 1..Len(s) : s[i] = ch
    /\ s[1] # ch

\* str.replace(a, b) for a single character a and a text b
RECURSIVE Replace(_, _, _)
Replace(s, a, b) ==
    IF s = <<>> THEN <<>>
    ELSE (IF Head(s) = a THEN b ELSE <<Head(s)>>) \o Replace(Tail(s), a, b)

\* str.split(): the maximal runs of non-space symbols, in order
RECURSIVE SplitAcc(_, _, _)
SplitAcc(s, cur, acc) ==
    IF s = <<>> THEN (IF cur = <<>> THEN acc ELSE Append(acc, cur))
    ELSE IF Head(s) = SP
         THEN SplitAcc(Tail(s), <<>>, IF cur = <<>> THEN acc ELSE Append(acc, cur))
         ELSE SplitAcc(Tail(s), Append(cur, Head(s)), acc)

Split(s) == SplitAcc(s, <<>>, <<>>)

\* str.strip(): leading and trailing spaces removed
RECURSIVE LStrip(_)
LStrip(s) == IF s # <<>> /\ Head(s) = SP THEN LStrip(Tail(s)) ELSE s

RECURSIVE RStrip(_)
RStrip(s) ==
    IF s # <<>> /\ s[Len(s)] = SP THEN RStrip(SubSeq(s, 1, Len(s) - 1)) ELSE s

Strip(s) == RStrip(LStrip(s))

\* str.split(None, 1): at most two parts, the first word and the text after
\* the run of spaces that follows it
Split1(s) ==
    LET t == LStrip(s)
        k == IF \E i \in 1..Len(t) : t[i] = SP
             THEN CHOOSE i \in 1..Len(t) :
                      t[i] = SP /\ \A j \in 1..(i - 1) : t[j] # SP
             ELSE Len(t) + 1
        first == SubSeq(t, 1, k - 1)
        rest  == RStrip(LStrip(SubSeq(t, k, Len(t))))
    IN  IF t = <<>> THEN <<>>
        ELSE IF rest = <<>> THEN <<first>>
        ELSE <<first, LStrip(SubSeq(t, k, Len(t)))>>

\* ' '.join(parts)
RECURSIVE JoinSp(_)
JoinSp(parts) ==
    IF parts = <<>> THEN <<>>
    ELSE IF Len(parts) = 1 THEN parts[1]
    ELSE parts[1] \o <<SP>> \o JoinSp(Tail(parts))

----------------------------------------------------------------------------
(* The Result classes and their status handlers *)

\* a fixed message of the code, held as a text of one symbol
Msg(m) == <<m>>

\* the integer fields that are None until set
NoneInt == -1

\* the outcome of a handler: the Result after the call and the error raised
\* ("" when the handler returned normally)
Ok(r) == [r |-> r, err |-> ""]
Raise(r, e) == [r |-> r, err |-> e]

UnknownStatus == "ValueError: Unknown status message"
UnpackError == "ValueError: unpack"

ResultTypes == {"crypt", "delete", "generate", "import", "list", "sign", "verify"}

\* a table of trust levels that counts from one
TRUST_LEVELS_FromOne ==
    [k \in {"TRUST_UNDEFINED", "TRUST_NEVER", "TRUST_MARGINAL", "TRUST_FULLY",
            "TRUST_ULTIMATE"} |->
        CASE k = "TRUST_UNDEFINED" -> 1
          [] k = "TRUST_NEVER" -> 2
          [] k = "TRUST_MARGINAL" -> 3
          [] k = "TRUST_FULLY" -> 4
          [] k = "TRUST_ULTIMATE" -> 5]

TRUST_LEVELS ==
    [k \in {"TRUST_UNDEFINED", "TRUST_NEVER", "TRUST_MARGINAL", "TRUST_FULLY",
            "TRUST_ULTIMATE"} |->
        CASE k = "TRUST_UNDEFINED" -> 0
          [] k = "TRUST_NEVER" -> 1
          [] k = "TRUST_MARGINAL" -> 2
          [] k = "TRUST_FULLY" -> 3
          [] k = "TRUST_ULTIMATE" -> 4]

\* a Verify that is valid from the start
VerifyInitValid ==
    [valid |-> TRUE, fingerprint |-> None, creation_date |-> None,
     timestamp |-> None, signature_id |-> None, key_id |-> None,
     username |-> None, status |-> None, pubkey_fingerprint |-> None,
     expire_timestamp |-> None, sig_timestamp |-> None,
     trust_text |-> None, trust_level |-> NoneInt]

VerifyInit ==
    [valid |-> FALSE, fingerprint |-> None, creation_date |-> None,
     timestamp |-> None, signature_id |-> None, key_id |-> None,
     username |-> None, status |-> None, pubkey_fingerprint |-> None,
     expire_timestamp |-> None, sig_timestamp |-> None,
     trust_text |-> None, trust_level |-> NoneInt]

VerifyHandleStatus(self, key, value) ==
    IF key \in DOMAIN TRUST_LEVELS THEN
        Ok([self EXCEPT !.trust_text = <<key>>, !.trust_level = TRUST_LEVELS[key]])
    ELSE IF key \in {"RSA_OR_IDEA", "NODATA", "IMPORT_RES", "PLAINTEXT",
                     "PLAINTEXT_LENGTH", "POLICY_URL", "DECRYPTION_INFO",
                     "DECRYPTION_OKAY", "INV_SGNR"} THEN
        Ok(self)
    ELSE IF key = "BADSIG" THEN
        LET s1 == [self EXCEPT !.valid = FALSE, !.status = Msg("signature bad")]
            L == Split1(value)
        IN  IF Len(L) = 2
            THEN Ok([s1 EXCEPT !.key_id = L[1], !.username = L[2]])
            ELSE Raise(s1, UnpackError)
    ELSE IF key = "GOODSIG" THEN
        LET s1 == [self EXCEPT !.valid = TRUE, !.status = Msg("signature good")]
            L == Split1(value)
        IN  IF Len(L) = 2
            THEN Ok([s1 EXCEPT !.key_id = L[1], !.username = L[2]])
            ELSE Raise(s1, UnpackError)
    ELSE IF key = "VALIDSIG" THEN
        LET L == Split(value)
        IN  IF Len(L) >= 4
            THEN Ok([self EXCEPT !.fingerprint = L[1], !.creation_date = L[2],
                                 !.sig_timestamp = L[3],
                                 !.expire_timestamp = L[4],
                                 !.pubkey_fingerprint = L[Len(L)],
                                 !.status = Msg("signature valid")])
            ELSE Raise(self, UnpackError)
    ELSE IF key = "SIG_ID" THEN
        LET L == Split(value)
        IN  IF Len(L) = 3
            THEN Ok([self EXCEPT !.signature_id = L[1], !.creation_date = L[2],
                                 !.timestamp = L[3]])
            ELSE Raise(self, UnpackError)
    ELSE IF key = "ERRSIG" THEN
        LET s1 == [self EXCEPT !.valid = FALSE]
            L == Split(value)
        IN  IF Len(L) >= 5
            THEN Ok([s1 EXCEPT !.key_id = L[1], !.timestamp = L[5],
                               !.status = Msg("signature error")])
            ELSE Raise(s1, UnpackError)
    ELSE IF key = "DECRYPTION_FAILED" THEN
        Ok([self EXCEPT !.valid = FALSE, !.key_id = value,
                        !.status = Msg("decryption failed")])
    ELSE IF key = "NO_PUBKEY" THEN
        Ok([self EXCEPT !.valid = FALSE, !.key_id = value,
                        !.status = Msg("no public key")])
    ELSE IF key \in {"KEYEXPIRED", "SIGEXPIRED"} THEN
        Ok(self)
    ELSE IF key \in {"EXPKEYSIG", "REVKEYSIG"} THEN
        LET s1 == [self EXCEPT !.valid = FALSE]
            L == Split(value)
        IN  IF Len(L) >= 1
            THEN Ok([s1 EXCEPT !.key_id = L[1],
                               !.status = IF key = "EXPKEYSIG"
                                          THEN Msg("exp keysig")
                                          ELSE Msg("rev keysig")])
            ELSE Raise(s1, "IndexError")
    ELSE Raise(self, UnknownStatus)

\* a Crypt that is truthy from the start
CryptInitOk ==
    [f \in DOMAIN VerifyInit \cup {"data", "ok"} |->
        IF f = "data" THEN <<>>
        ELSE IF f = "ok" THEN TRUE
        ELSE IF f = "status" THEN <<>>
        ELSE VerifyInit[f]]

CryptInit ==
    [f \in DOMAIN VerifyInit \cup {"data", "ok"} |->
        IF f = "data" THEN <<>>
        ELSE IF f = "ok" THEN FALSE
        ELSE IF f = "status" THEN <<>>
        ELSE VerifyInit[f]]

\* a status text that does not depend on the keyword
CryptStatusTextFixed(key) == Msg("need passphrase")

\* key.replace("_", " ").lower() for the keywords of the second branch
CryptStatusText(key) ==
    CASE key = "NEED_PASSPHRASE" -> Msg("need passphrase")
      [] key = "BAD_PASSPHRASE" -> Msg("bad passphrase")
      [] key = "GOOD_PASSPHRASE" -> Msg("good passphrase")
      [] key = "MISSING_PASSPHRASE" -> Msg("missing passphrase")
      [] key = "DECRYPTION_FAILED" -> Msg("decryption failed")
      [] key = "KEY_NOT_CREATED" -> Msg("key not created")

CryptHandleStatus(self, key, value) ==
    IF key \in {"ENC_TO", "USERID_HINT", "GOODMDC", "END_DECRYPTION",
                "BEGIN_SIGNING", "NO_SECKEY", "ERROR", "NODATA", "CARDCTRL"} THEN
        Ok(self)
    ELSE IF key \in {"NEED_PASSPHRASE", "BAD_PASSPHRASE", "GOOD_PASSPHRASE",
                     "MISSING_PASSPHRASE", "DECRYPTION_FAILED",
                     "KEY_NOT_CREATED"} THEN
        Ok([self EXCEPT !.status = CryptStatusText(key)])
    ELSE IF key = "NEED_PASSPHRASE_SYM" THEN
        Ok([self EXCEPT !.status = Msg("need symmetric passphrase")])
    ELSE IF key = "BEGIN_DECRYPTION" THEN
        Ok([self EXCEPT !.status = Msg("decryption incomplete")])
    ELSE IF key = "BEGIN_ENCRYPTION" THEN
        Ok([self EXCEPT !.status = Msg("encryption incomplete")])
    ELSE IF key = "DECRYPTION_OKAY" THEN
        Ok([self EXCEPT !.status = Msg("decryption ok"), !.ok = TRUE])
    ELSE IF key = "END_ENCRYPTION" THEN
        Ok([self EXCEPT !.status = Msg("encryption ok"), !.ok = TRUE])
    ELSE IF key = "INV_RECP" THEN
        Ok([self EXCEPT !.status = Msg("invalid recipient")])
    ELSE IF key = "KEYEXPIRED" THEN
        Ok([self EXCEPT !.status = Msg("key expired")])
    ELSE IF key = "SIG_CREATED" THEN
        Ok([self EXCEPT !.status = Msg("sig created")])
    ELSE IF key = "SIGEXPIRED" THEN
        Ok([self EXCEPT !.status = Msg("sig expired")])
    ELSE VerifyHandleStatus(self, key, value)

GenKeyInit == [type |-> None, fingerprint |-> None]

\* a handler that stores the two fields of KEY_CREATED the other way round
GenKeyHandleStatusSwapped(self, key, value) ==
    IF key \in {"PROGRESS", "GOOD_PASSPHRASE", "NODATA", "KEY_NOT_CREATED"} THEN
        Ok(self)
    ELSE IF key = "KEY_CREATED" THEN
        LET L == Split(value)
        IN  IF Len(L) = 2
            THEN Ok([self EXCEPT !.type = L[2], !.fingerprint = L[1]])
            ELSE Raise(self, UnpackError)
    ELSE Raise(self, UnknownStatus)

GenKeyHandleStatus(self, key, value) ==
    IF key \in {"PROGRESS", "GOOD_PASSPHRASE", "NODATA", "KEY_NOT_CREATED"} THEN
        Ok(self)
    ELSE IF key = "KEY_CREATED" THEN
        LET L == Split(value)
        IN  IF Len(L) = 2
            THEN Ok([self EXCEPT !.type = L[1], !.fingerprint = L[2]])
            ELSE Raise(self, UnpackError)
    ELSE Raise(self, UnknownStatus)

DeleteResultInit == [status |-> Msg("ok")]

\* a problem_reason with the texts of codes 2 and 3 exchanged
DeleteProblemReasonSwapped(value) ==
    IF value = <<"1">> THEN Msg("No such key")
    ELSE IF value = <<"2">> THEN Msg("Ambigious specification")
    ELSE IF value = <<"3">> THEN Msg("Must delete secret key first")
    ELSE <<"Unknown error: ", SQ>> \o value \o <<SQ>>

\* problem_reason.get(value, "Unknown error: %r" % value); %r writes the
\* value between quotes
DeleteProblemReason(value) ==
    IF value = <<"1">> THEN Msg("No such key")
    ELSE IF value = <<"2">> THEN Msg("Must delete secret key first")
    ELSE IF value = <<"3">> THEN Msg("Ambigious specification")
    ELSE <<"Unknown error: ", SQ>> \o value \o <<SQ>>

\* DeleteResultHandleStatus with a final branch that accepts any keyword
DeleteResultHandleStatusLax(self, key, value) ==
    IF key = "DELETE_PROBLEM" THEN
        Ok([self EXCEPT !.status = DeleteProblemReason(value)])
    ELSE Ok(self)

DeleteResultHandleStatus(self, key, value) ==
    IF key = "DELETE_PROBLEM" THEN
        Ok([self EXCEPT !.status = DeleteProblemReason(value)])
    ELSE Raise(self, UnknownStatus)

SignInit == [type |-> None, fingerprint |-> None, timestamp |-> None]

\* a handler that takes the fourth field of SIG_CREATED for the timestamp
SignHandleStatusFourth(self, key, value) ==
    IF key \in {"USERID_HINT", "NEED_PASSPHRASE", "BAD_PASSPHRASE",
                "GOOD_PASSPHRASE", "BEGIN_SIGNING", "CARDCTRL", "INV_SGNR",
                "NODATA"} THEN
        Ok(self)
    ELSE IF key = "SIG_CREATED" THEN
        LET L == Split(value)
        IN  IF Len(L) = 6
            THEN Ok([self EXCEPT !.type = L[1], !.timestamp = L[4],
                                 !.fingerprint = L[6]])
            ELSE Raise(self, UnpackError)
    ELSE Raise(self, UnknownStatus)

SignHandleStatus(self, key, value) ==
    IF key \in {"USERID_HINT", "NEED_PASSPHRASE", "BAD_PASSPHRASE",
                "GOOD_PASSPHRASE", "BEGIN_SIGNING", "CARDCTRL", "INV_SGNR",
                "NODATA"} THEN
        Ok(self)
    ELSE IF key = "SIG_CREATED" THEN
        LET L == Split(value)
        IN  IF Len(L) = 6
            THEN Ok([self EXCEPT !.type = L[1], !.timestamp = L[5],
                                 !.fingerprint = L[6]])
            ELSE Raise(self, UnpackError)
    ELSE Raise(self, UnknownStatus)

ListKeysInit == [keys |-> <<>>, curkey |-> 0, fingerprints |-> <<>>, uids |-> <<>>]

ListKeysHandleStatus(self, key, value) == Ok(self)

\* methods whose key puts the new record at the front of the list
ListKeysMethodFront(self, L) ==
    IF L[1] \in {<<"pub">>, <<"sec">>}
    THEN IF Len(L) < 10
         THEN Raise([self EXCEPT !.curkey = -1], "IndexError")
         ELSE LET curkey == [type |-> L[1], trust |-> L[2], length |-> L[3],
                             algo |-> L[4], keyid |-> L[5], date |-> L[6],
                             expires |-> L[7], dummy |-> L[8],
                             ownertrust |-> L[9],
                             uids |-> IF L[10] # <<>> THEN <<L[10]>> ELSE <<>>,
                             subkeys |-> <<>>]
              IN  Ok([self EXCEPT !.keys = <<curkey>> \o self.keys,
                                  !.curkey = Len(self.keys) + 1])
    ELSE IF L[1] = <<"fpr">>
    THEN IF Len(L) < 10 THEN Raise(self, "IndexError")
         ELSE IF self.curkey = 0 THEN Raise(self, "TypeError")
         ELSE IF self.curkey = -1
         THEN Ok([self EXCEPT !.fingerprints = Append(@, L[10])])
         ELSE Ok([self EXCEPT
                     !.keys[self.curkey] = ("fingerprint" :> L[10]) @@ @,
                     !.fingerprints = Append(@, L[10])])
    ELSE IF L[1] = <<"uid">>
    THEN IF Len(L) < 10 THEN Raise(self, "IndexError")
         ELSE IF self.curkey = 0 THEN Raise(self, "TypeError")
         ELSE IF self.curkey = -1 THEN Raise(self, "KeyError")
         ELSE LET uid == Replace(L[10], "\\x3a", <<":">>)
              IN  Ok([self EXCEPT !.keys[self.curkey].uids = Append(@, uid),
                                  !.uids = Append(@, uid)])
    ELSE IF Len(L) < 12 THEN Raise(self, "IndexError")
         ELSE IF self.curkey = 0 THEN Raise(self, "TypeError")
         ELSE IF self.curkey = -1 THEN Raise(self, "KeyError")
         ELSE Ok([self EXCEPT !.keys[self.curkey].subkeys =
                                  Append(@, <<L[5], L[12]>>)])

\* methods whose fpr writes the fingerprint into the first record of the list
ListKeysMethodFirst(self, L) ==
    IF L[1] \in {<<"pub">>, <<"sec">>}
    THEN IF Len(L) < 10
         THEN Raise([self EXCEPT !.curkey = -1], "IndexError")
         ELSE LET curkey == [type |-> L[1], trust |-> L[2], length |-> L[3],
                             algo |-> L[4], keyid |-> L[5], date |-> L[6],
                             expires |-> L[7], dummy |-> L[8],
                             ownertrust |-> L[9],
                             uids |-> IF L[10] # <<>> THEN <<L[10]>> ELSE <<>>,
                             subkeys |-> <<>>]
              IN  Ok([self EXCEPT !.keys = Append(self.keys, curkey),
                                  !.curkey = Len(self.keys) + 1])
    ELSE IF L[1] = <<"fpr">>
    THEN IF Len(L) < 10 THEN Raise(self, "IndexError")
         ELSE IF self.curkey = 0 THEN Raise(self, "TypeError")
         ELSE IF self.curkey = -1
         THEN Ok([self EXCEPT !.fingerprints = Append(@, L[10])])
         ELSE Ok([self EXCEPT
                     !.keys[1] = ("fingerprint" :> L[10]) @@ @,
                     !.fingerprints = Append(@, L[10])])
    ELSE IF L[1] = <<"uid">>
    THEN IF Len(L) < 10 THEN Raise(self, "IndexError")
         ELSE IF self.curkey = 0 THEN Raise(self, "TypeError")
         ELSE IF self.curkey = -1 THEN Raise(self, "KeyError")
         ELSE LET uid == Replace(L[10], "\\x3a", <<":">>)
              IN  Ok([self EXCEPT !.keys[self.curkey].uids = Append(@, uid),
                                  !.uids = Append(@, uid)])
    ELSE IF Len(L) < 12 THEN Raise(self, "IndexError")
         ELSE IF self.curkey = 0 THEN Raise(self, "TypeError")
         ELSE IF self.curkey = -1 THEN Raise(self, "KeyError")
         ELSE Ok([self EXCEPT !.keys[self.curkey].subkeys =
                                  Append(@, <<L[5], L[12]>>)])

\* the methods list_keys calls with the fields L of a line, the keyword
\* first: pub and sec (key), fpr, uid, sub.  curkey is the position in the
\* list of the dict it refers to, 0 for None, -1 for a dict that is in no
\* list (key fails after it has made a new one); a field a line lacks
\* raises IndexError, a subscript of None raises TypeError, and a dict key
\* that is absent raises KeyError
ListKeysMethod(self, L) ==
    IF L[1] \in {<<"pub">>, <<"sec">>}
    THEN IF Len(L) < 10
         THEN Raise([self EXCEPT !.curkey = -1], "IndexError")
         ELSE LET curkey == [type |-> L[1], trust |-> L[2], length |-> L[3],
                             algo |-> L[4], keyid |-> L[5], date |-> L[6],
                             expires |-> L[7], dummy |-> L[8],
                             ownertrust |-> L[9],
                             uids |-> IF L[10] # <<>> THEN <<L[10]>> ELSE <<>>,
                             subkeys |-> <<>>]
              IN  Ok([self EXCEPT !.keys = Append(self.keys, curkey),
                                  !.curkey = Len(self.keys) + 1])
    ELSE IF L[1] = <<"fpr">>
    THEN IF Len(L) < 10 THEN Raise(self, "IndexError")
         ELSE IF self.curkey = 0 THEN Raise(self, "TypeError")
         ELSE IF self.curkey = -1
         THEN Ok([self EXCEPT !.fingerprints = Append(@, L[10])])
         ELSE Ok([self EXCEPT
                     !.keys[self.curkey] = ("fingerprint" :> L[10]) @@ @,
                     !.fingerprints = Append(@, L[10])])
    ELSE IF L[1] = <<"uid">>
    THEN IF Len(L) < 10 THEN Raise(self, "IndexError")
         ELSE IF self.curkey = 0 THEN Raise(self, "TypeError")
         ELSE IF self.curkey = -1 THEN Raise(self, "KeyError")
         ELSE LET uid == Replace(L[10], "\\x3a", <<":">>)
              IN  Ok([self EXCEPT !.keys[self.curkey].uids = Append(@, uid),
                                  !.uids = Append(@, uid)])
    ELSE IF Len(L) < 12 THEN Raise(self, "IndexError")
         ELSE IF self.curkey = 0 THEN Raise(self, "TypeError")
         ELSE IF self.curkey = -1 THEN Raise(self, "KeyError")
         ELSE Ok([self EXCEPT !.keys[self.curkey].subkeys =
                                  Append(@, <<L[5], L[12]>>)])

\* int(text): defined for the decimal numerals of 0..MaxInt
IsInt(t) == Len(t) = 1 /\ \E i \in 0..MaxInt : ToString(i) = t[1]
IntOf(t) == CHOOSE i \in 0..MaxInt : ToString(i) = t[1]

\* a | b on non-negative integers
RECURSIVE BitOr(_, _)
BitOr(a, b) ==
    IF a = 0 THEN b
    ELSE IF b = 0 THEN a
    ELSE (IF a % 2 = 1 \/ b % 2 = 1 THEN 1 ELSE 0) + 2 * BitOr(a \div 2, b \div 2)

\* ImportResult.counts, in order
ImportCounts ==
    <<"count", "no_user_id", "imported", "imported_rsa", "unchanged", "n_uids",
      "n_subk", "n_sigs", "n_revoc", "sec_read", "sec_imported", "sec_dups",
      "not_imported">>

\* an ok_reason without the entry for code 0
OkReasonNoZero ==
    << <<1, "Entirely new key">>,
       <<2, "New user IDs">>, <<4, "New signatures">>, <<8, "New subkeys">>,
       <<16, "Contains private key">> >>

\* ImportResult.ok_reason, by ascending code
OkReason ==
    << <<0, "Not actually changed">>, <<1, "Entirely new key">>,
       <<2, "New user IDs">>, <<4, "New signatures">>, <<8, "New subkeys">>,
       <<16, "Contains private key">> >>

\* ImportResult.problem_reason
ProblemReason ==
    [c \in {<<"0">>, <<"1">>, <<"2">>, <<"3">>, <<"4">>} |->
        CASE c = <<"0">> -> "No specific reason given"
          [] c = <<"1">> -> "Invalid Certificate"
          [] c = <<"2">> -> "Issuer Certificate missing"
          [] c = <<"3">> -> "Certificate Chain too long"
          [] c = <<"4">> -> "Error storing certificate"]

ImportResultInit ==
    [imported |-> <<>>, results |-> <<>>, fingerprints |-> <<>>,
     counts |-> [i \in 1..Len(ImportCounts) |-> NoneInt]]

\* the texts of the ok_reason entries whose bits are all set in reason
RECURSIVE OkReasons(_, _)
OkReasons(reason, table) ==
    IF table = <<>> THEN <<>>
    ELSE (IF BitOr(reason, Head(table)[1]) = reason
          THEN <<Head(table)[2]>> ELSE <<>>) \o OkReasons(reason, Tail(table))

\* the loop of IMPORT_RES: counters are set one by one until a field is
\* missing or is not a number
RECURSIVE ImportResLoop(_, _, _)
ImportResLoop(self, L, i) ==
    IF i > Len(ImportCounts) THEN Ok(self)
    ELSE IF i > Len(L) THEN Raise(self, "IndexError")
    ELSE IF ~IsInt(L[i]) THEN Raise(self, "ValueError: int")
    ELSE ImportResLoop([self EXCEPT !.counts[i] = IntOf(L[i])], L, i + 1)

ImportResultHandleStatus(self, key, value) ==
    IF key = "IMPORTED" THEN Ok(self)
    ELSE IF key = "NODATA" THEN
        Ok([self EXCEPT !.results = Append(@,
                [fingerprint |-> None, kind |-> "problem", code |-> <<"0">>,
                 text |-> <<"No valid data found">>])])
    ELSE IF key = "IMPORT_OK" THEN
        LET L == Split(value)
        IN  IF Len(L) # 2 THEN Raise(self, UnpackError)
            ELSE IF ~IsInt(L[1]) THEN Raise(self, "ValueError: int")
            ELSE Ok([self EXCEPT
                       !.results = Append(@,
                           [fingerprint |-> L[2], kind |-> "ok", code |-> L[1],
                            text |-> OkReasons(IntOf(L[1]), OkReason)]),
                       !.fingerprints = Append(@, L[2])])
    ELSE IF key = "IMPORT_PROBLEM" THEN
        LET L == Split(value)
            reason == IF Len(L) = 2 THEN L[1] ELSE value
            fingerprint == IF Len(L) = 2 THEN L[2] ELSE <<"<unknown>">>
        IN  IF reason \in DOMAIN ProblemReason
            THEN Ok([self EXCEPT !.results = Append(@,
                        [fingerprint |-> fingerprint, kind |-> "problem",
                         code |-> reason, text |-> <<ProblemReason[reason]>>])])
            ELSE Raise(self, "KeyError")
    ELSE IF key = "IMPORT_RES" THEN
        ImportResLoop(self, Split(value), 1)
    ELSE IF key = "KEYEXPIRED" THEN
        Ok([self EXCEPT !.results = Append(@,
                [fingerprint |-> None, kind |-> "problem", code |-> <<"0">>,
                 text |-> <<"Key expired">>])])
    ELSE IF key = "SIGEXPIRED" THEN
        Ok([self EXCEPT !.results = Append(@,
                [fingerprint |-> None, kind |-> "problem", code |-> <<"0">>,
                 text |-> <<"Signature expired">>])])
    ELSE Raise(self, UnknownStatus)

\* GPG.result_map: a fresh Result of the type the facade picks
NewResult(rtype) ==
    CASE rtype = "crypt" -> CryptInit
      [] rtype = "delete" -> DeleteResultInit
      [] rtype = "generate" -> GenKeyInit
      [] rtype = "import" -> ImportResultInit
      [] rtype = "list" -> ListKeysInit
      [] rtype = "sign" -> SignInit
      [] rtype = "verify" -> VerifyInit

\* a dispatch in which KEYEXPIRED makes a Verify invalid
HandleStatusExpiring(rtype, self, key, value) ==
    CASE rtype = "crypt" -> CryptHandleStatus(self, key, value)
      [] rtype = "delete" -> DeleteResultHandleStatus(self, key, value)
      [] rtype = "generate" -> GenKeyHandleStatus(self, key, value)
      [] rtype = "import" -> ImportResultHandleStatus(self, key, value)
      [] rtype = "list" -> ListKeysHandleStatus(self, key, value)
      [] rtype = "sign" -> SignHandleStatus(self, key, value)
      [] rtype = "verify" ->
            IF key = "KEYEXPIRED" THEN Ok([self EXCEPT !.valid = FALSE])
            ELSE VerifyHandleStatus(self, key, value)

\* result.handle_status(keyword, value), dispatched on the Result's class
HandleStatus(rtype, self, key, value) ==
    CASE rtype = "crypt" -> CryptHandleStatus(self, key, value)
      [] rtype = "delete" -> DeleteResultHandleStatus(self, key, value)
      [] rtype = "generate" -> GenKeyHandleStatus(self, key, value)
      [] rtype = "import" -> ImportResultHandleStatus(self, key, value)
      [] rtype = "list" -> ListKeysHandleStatus(self, key, value)
      [] rtype = "sign" -> SignHandleStatus(self, key, value)
      [] rtype = "verify" -> VerifyHandleStatus(self, key, value)

\* a __nonzero__ in which Crypt goes by the text of its status
NonzeroByStatus(rtype, self) ==
    CASE rtype = "crypt" ->
             self.status \in {Msg("decryption ok"), Msg("encryption ok")}
      [] rtype = "delete" -> TRUE
      [] rtype = "generate" -> self.fingerprint \notin {None, <<>>}
      [] rtype = "import" ->
            /\ self.counts[Len(ImportCounts)] \in {NoneInt, 0}
            /\ self.fingerprints # <<>>
      [] rtype = "list" -> self.keys # <<>>
      [] rtype = "sign" -> self.fingerprint # None
      [] rtype = "verify" -> self.valid

\* a __nonzero__ in which ImportResult does not look at not_imported
NonzeroAnyImport(rtype, self) ==
    CASE rtype = "crypt" -> self.ok
      [] rtype = "delete" -> TRUE
      [] rtype = "generate" -> self.fingerprint \notin {None, <<>>}
      [] rtype = "import" -> self.fingerprints # <<>>
      [] rtype = "list" -> self.keys # <<>>
      [] rtype = "sign" -> self.fingerprint # None
      [] rtype = "verify" -> self.valid

\* __nonzero__ of each Result class: Verify is its valid, Crypt its ok,
\* GenKey "if self.fingerprint", Sign "fingerprint is not None",
\* ImportResult "not not_imported and fingerprints"; DeleteResult defines
\* none and is truthy; ListKeys is a list, truthy when it is not empty
Nonzero(rtype, self) ==
    CASE rtype = "crypt" -> self.ok
      [] rtype = "delete" -> TRUE
      [] rtype = "generate" -> self.fingerprint \notin {None, <<>>}
      [] rtype = "import" ->
            /\ self.counts[Len(ImportCounts)] \in {NoneInt, 0}
            /\ self.fingerprints # <<>>
      [] rtype = "list" -> self.keys # <<>>
      [] rtype = "sign" -> self.fingerprint # None
      [] rtype = "verify" -> self.valid

----------------------------------------------------------------------------
(* The argument sanitiser *)

\* the punctuation of command-line text; every other symbol is a run of
\* word characters
SafePunct == {US, HY, "@", "%", "+", "=", ":", ",", ".", "/"}
UnsafePunct == {SP, SQ, DQ, ";", "$", "&", "|", "(", ")", "<", ">", "*"}

\* the character class [^\w@%+=:,./-] of _fix_unsafe
IsUnsafe(c) == c \in UnsafePunct

\* a _fix_unsafe that leaves embedded single quotes as they are
FixUnsafePlain(input) ==
    IF \A i \in 1..Len(input) : ~IsUnsafe(input[i])
    THEN input
    ELSE <<SQ>> \o input \o <<SQ>>

\* _fix_unsafe on a text
FixUnsafe(input) ==
    IF \A i \in 1..Len(input) : ~IsUnsafe(input[i])
    THEN input
    ELSE <<SQ>> \o Replace(input, SQ, <<SQ, DQ, SQ, DQ, SQ>>) \o <<SQ>>

\* a flag "--w1-w2-..." as a text
RECURSIVE Hyphenated(_)
Hyphenated(words) ==
    IF Len(words) = 1 THEN <<words[1]>>
    ELSE <<words[1], HY>> \o Hyphenated(Tail(words))

Flag(words) == <<HY, HY>> \o Hyphenated(words)

\* _is_allowed._allowed
Allowed ==
    {Flag(<<"list", "packets">>), Flag(<<"delete", "keys">>),
     Flag(<<"delete", "secret", "keys">>), Flag(<<"encrypt">>),
     Flag(<<"print", "mds">>), Flag(<<"print", "md">>), Flag(<<"sign">>),
     Flag(<<"encrypt", "files">>), Flag(<<"gen", "key">>),
     Flag(<<"decrypt">>), Flag(<<"decrypt", "files">>),
     Flag(<<"list", "keys">>), Flag(<<"import">>), Flag(<<"verify">>),
     Flag(<<"version">>), Flag(<<"status", "fd">>), Flag(<<"no", "tty">>),
     Flag(<<"homedir">>), Flag(<<"no", "default", "keyring">>),
     Flag(<<"keyring">>), Flag(<<"passphrase", "fd">>),
     Flag(<<"fingerprint">>), Flag(<<"with", "colons">>)}

\* _hyphenate
Hyphenate(input, add_prefix) ==
    (IF add_prefix THEN <<HY, HY>> ELSE <<>>) \o Replace(input, US, <<HY>>)

\* an _is_allowed with no allow-list: it returns whatever it is given
IsAllowedAny(input) == [kind |-> "ok", flag |-> input]

\* _is_allowed on a text: the text itself when it holds no underscore past
\* its first character and is in _allowed; ProtectedOption when it holds
\* none and is not in _allowed; None when it holds one (the hyphenated form
\* is computed and dropped)
IsAllowed(input) ==
    IF FindPos(input, US)
    THEN [kind |-> "none", flag |-> <<>>]
    ELSE IF input \in Allowed
         THEN [kind |-> "ok", flag |-> input]
         ELSE [kind |-> "protected", flag |-> <<>>]

\* the files of the host: those os.lstat finds with a size above zero, and
\* those it finds empty; it raises OSError for any other path
Files == {<<"keyfile">>}
EmptyFiles == {<<"empty">>}

\* str.split(sep): the parts between separators, empty ones included
RECURSIVE SplitOnAcc(_, _, _, _)
SplitOnAcc(s, sep, cur, acc) ==
    IF s = <<>> THEN Append(acc, cur)
    ELSE IF Head(s) = sep
         THEN SplitOnAcc(Tail(s), sep, <<>>, Append(acc, cur))
         ELSE SplitOnAcc(Tail(s), sep, Append(cur, Head(s)), acc)

SplitOn(s, sep) == SplitOnAcc(s, sep, <<>>, <<>>)

\* a value handed to _check_arg_and_value that is not a string
NoValue == <<"<None>">>

\* the loop over value_list in _check_arg_and_value: every value is
\* escaped and kept when _is_file accepts it (the test on allowed_flag is
\* true for every flag)
RECURSIVE CheckValues(_, _)
RECURSIVE CheckValue(_, _, _)
CheckValues(value_list, safe_values) ==
    IF value_list = <<>> THEN [text |-> safe_values, err |-> ""]
    ELSE CheckValue(Tail(value_list), safe_values, FixUnsafe(Head(value_list)))

\* one pass of that loop, for the escaped value safe_value: _is_file
CheckValue(rest, safe_values, safe_value) ==
    IF safe_value \in Files
    THEN CheckValues(rest, safe_values \o safe_value \o <<SP>>)
    ELSE IF safe_value \in EmptyFiles
    THEN CheckValues(rest, safe_values)
    ELSE [text |-> safe_values, err |-> "OSError"]

\* a _check_arg_and_value that adds no space after the flag
CheckAllowedBare(allowed_flag, value) ==
    IF allowed_flag.kind # "ok"
    THEN [text |-> <<>>, err |-> ""]
    ELSE IF value = NoValue
    THEN [text |-> allowed_flag.flag, err |-> ""]
    ELSE CheckValues(IF FindPos(value, SP) THEN SplitOn(value, SP) ELSE <<>>,
                     allowed_flag.flag)

\* _sanitise._check_arg_and_value, once _is_allowed has answered
CheckAllowed(allowed_flag, value) ==
    IF allowed_flag.kind # "ok"
    THEN [text |-> <<>>, err |-> ""]
    ELSE IF value = NoValue
    THEN [text |-> allowed_flag.flag \o <<SP>>, err |-> ""]
    ELSE CheckValues(IF FindPos(value, SP) THEN SplitOn(value, SP) ELSE <<>>,
                     allowed_flag.flag \o <<SP>>)

\* a _check_arg_and_value that lets ProtectedOption escape
CheckArgAndValueRaising(arg, value) ==
    IF IsAllowed(arg).kind = "protected"
    THEN [text |-> <<>>, err |-> "ProtectedOption"]
    ELSE CheckAllowed(IsAllowed(arg), value)

\* _sanitise._check_arg_and_value
CheckArgAndValue(arg, value) == CheckAllowed(IsAllowed(arg), value)

\* is_flag of _sanitise
IsFlagTok(x) == x # <<>> /\ x[1] = HY

Front(q) == SubSeq(q, 1, Len(q) - 1)
Last(q) == q[Len(q)]

\* the inner loop of _sanitise that gathers the values of a flag: it pops
\* from the end of filo while the first element of filo is not a flag
RECURSIVE GatherValues(_, _)
GatherValues(filo, new_value) ==
    IF filo = <<>> THEN [filo |-> filo, value |-> new_value, err |-> "IndexError"]
    ELSE IF ~IsFlagTok(filo[1])
         THEN GatherValues(Front(filo), new_value \o Last(filo) \o <<SP>>)
         ELSE [filo |-> filo, value |-> new_value, err |-> ""]

\* the loop of _sanitise over the reversed words of one string: when the
\* first element of filo is a flag, the last one is popped as the new
\* argument and its values are gathered; otherwise the last one is popped
\* and dropped; then the argument and value in hand are checked
RECURSIVE SanitiseLoop(_, _, _, _)
RECURSIVE LoopGathered(_, _, _)
RECURSIVE LoopChecked(_, _, _, _, _)
SanitiseLoop(filo, new_arg, new_value, checked) ==
    IF filo = <<>> THEN [checked |-> checked, err |-> ""]
    ELSE IF IsFlagTok(filo[1])
    THEN LoopGathered(IF Len(filo) > 1
                      THEN GatherValues(Front(filo), new_value)
                      ELSE [filo |-> <<>>, value |-> new_value, err |-> ""],
                      Last(filo), checked)
    ELSE LoopChecked(Front(filo), new_arg, new_value,
                     CheckArgAndValue(new_arg, new_value), checked)

\* the rest of a pass that popped a flag, g being what the inner loop left
LoopGathered(g, new_arg, checked) ==
    IF g.err # "" THEN [checked |-> checked, err |-> g.err]
    ELSE LoopChecked(g.filo, new_arg, g.value,
                     CheckArgAndValue(new_arg, g.value), checked)

\* the end of a pass: the checked text is kept unless it is blank
LoopChecked(filo, new_arg, new_value, safe, checked) ==
    IF safe.err # "" THEN [checked |-> checked, err |-> safe.err]
    ELSE SanitiseLoop(filo, new_arg, new_value,
                      IF Strip(safe.text) # <<>>
                      THEN Append(checked, safe.text) ELSE checked)

RECURSIVE Reverse(_)
Reverse(q) == IF q = <<>> THEN <<>> ELSE Append(Reverse(Tail(q)), Head(q))

\* arguments are a string, a list of strings, or None
StrArg(v) == [t |-> "str", v |-> v]
ListArg(v) == [t |-> "list", v |-> v]
NoneArg == [t |-> "none", v |-> <<>>]

\* the flags of a list argument of _sanitise: the elements that start with
\* "--", each checked without a value
RECURSIVE SanitiseListArg(_, _)
SanitiseListArg(items, checked) ==
    IF items = <<>> THEN checked
    ELSE LET a == Head(items)
         IN  SanitiseListArg(Tail(items),
                 IF Len(a) >= 2 /\ a[1] = HY /\ a[2] = HY
                 THEN Append(checked, CheckArgAndValue(a, NoValue).text)
                 ELSE checked)

\* ' '.join(checked), the result of _sanitise
Joined(r) == [text |-> JoinSp(r.checked), err |-> r.err]

\* _sanitise called with one argument
Sanitise(arg) ==
    IF arg.t = "str"
    THEN IF FindPos(arg.v, SP)
         THEN Joined(SanitiseLoop(Reverse(Split(arg.v)), <<>>, <<>>, <<>>))
         ELSE [text |-> CheckArgAndValue(arg.v, NoValue).text, err |-> ""]
    ELSE IF arg.t = "list"
    THEN [text |-> JoinSp(SanitiseListArg(arg.v, <<>>)), err |-> ""]
    ELSE [text |-> <<>>, err |-> ""]

\* _sanitise_list: the non-empty results of _sanitise on the items of a
\* list, in order; nothing at all for an argument that is not a list
RECURSIVE SanitiseItems(_, _)
RECURSIVE YieldItem(_, _, _)
SanitiseItems(items, acc) ==
    IF items = <<>> THEN [out |-> acc, err |-> ""]
    ELSE YieldItem(Tail(items), acc, Sanitise(StrArg(Head(items))))

\* one pass of the loop of _sanitise_list, safe_arg being what _sanitise
\* returned
YieldItem(rest, acc, safe_arg) ==
    IF safe_arg.err # "" THEN [out |-> acc, err |-> safe_arg.err]
    ELSE SanitiseItems(rest, IF safe_arg.text # <<>>
                             THEN Append(acc, safe_arg.text) ELSE acc)

SanitiseList(arg_list) ==
    IF arg_list.t = "list" THEN SanitiseItems(arg_list.v, <<>>)
    ELSE [out |-> <<>>, err |-> ""]

----------------------------------------------------------------------------
(* State *)

VARIABLES
    call,        \* the inputs of the facade call in progress
    mainpc,      \* where the calling thread stands
    wr,          \* the writer thread (_copy_data)
    rr,          \* the reader of the diagnostic channel (_read_response)
    dr,          \* the reader of the output channel (_read_data)
    srcPos,      \* read position of the input stream
    sent,        \* _copy_data's counter of bytes sent
    writeFailed, \* a write of _copy_data raised IOError
    inPipe,      \* items written to the child's input, not yet read by it
    inClosed,    \* the parent's end of the child's input is closed
    outPipe,     \* chunks on the output channel, not yet read
    errPipe,     \* lines on the diagnostic channel, not yet read
    child,       \* "none", "running" or "exited"
    childOp,     \* "idle", or the channel ("out", "err") of a blocked write
    childLine,   \* the line of a blocked write to the diagnostic channel
    outLeft,     \* chunks the child may still write to its output
    errLeft,     \* lines the child may still write to its diagnostics
    sinkLog,     \* every item the child's input has accepted, in order
    dataChunks,  \* number of chunks _read_data has collected
    rtype,       \* the class of the Result
    res,         \* the Result
    events,      \* the (keyword, value) pairs _read_response handed to the
                 \* Result's handler, in order
    lastEvent,   \* the (keyword, value) of the last handler call, <<>> if none
    nHandled,    \* the number of handler calls on the Result
    handlerErr,  \* the error the last handler call raised, "" if none
    callerErr,   \* the error that reached the caller of the facade, "" if none
    gpg,         \* the GPG object, once constructed
    ctorIn,      \* the arguments the constructor was called with
    ctorErr,     \* the error the constructor raised, "" if none
    margs,       \* the arguments of the last make_args call
    cmd,         \* the list the last make_args call returned
    emitted,     \* every line the child has written to its diagnostic
                 \* channel, in order
    fnIn,        \* the function last applied on its own, and its argument
    fnOut        \* what that function returned

iovars == <<call, mainpc, wr, rr, dr, srcPos, sent, writeFailed, inPipe,
            inClosed, outPipe, errPipe, child, childOp, childLine, outLeft,
            errLeft, sinkLog, dataChunks, emitted>>
resvars == <<rtype, res, events, lastEvent, nHandled, handlerErr>>
argvars == <<gpg, ctorIn, ctorErr, margs, cmd>>
fnvars == <<fnIn, fnOut>>

\* no GPG object, no constructor call, no make_args call
NoGpg == [made |-> FALSE]
NoInput == [given |-> FALSE]

ArgsIdle ==
    /\ gpg = NoGpg /\ ctorIn = NoInput /\ ctorErr = ""
    /\ margs = NoInput /\ cmd = <<>>
    /\ fnIn = NoInput /\ fnOut = <<>>

----------------------------------------------------------------------------
(* The I/O pipeline *)

Min(a, b) == IF a < b THEN a ELSE b

\* lengths of the input data: empty, whole chunks, and whole chunks followed
\* by a short one
SrcLens == {0, MaxChunks * CHUNK, (MaxChunks - 1) * CHUNK + 1}

\* lines a child writes to its diagnostic channel
NoiseLine == <<"gpg:", SP, "noise">>
StatusLine(k) == <<"[GNUPG:]", SP, k>>
IOLines == {NoiseLine, StatusLine("NODATA"), StatusLine("FROBNICATE")}

\* the passphrases of a call: None, the empty text, a non-empty text
Passphrases == {None, <<>>, <<"secret">>}

\* `if passphrase:`
Truthy(p) == p # None /\ p # <<>>

\* the facade operations, by the way they drive the child and the Result
\* class they pick
Facades ==
    {[op |-> "handle_io", name |-> "decrypt_file", rtype |-> "crypt"],
     [op |-> "sign_file", name |-> "sign_file", rtype |-> "sign"],
     [op |-> "collect", name |-> "delete_keys", rtype |-> "delete"],
     [op |-> "collect", name |-> "list_keys", rtype |-> "list"]}

NoCall == [op |-> "none"]

\* the child's end of its input is closed: writing to it is a broken pipe
BrokenPipe == child = "exited"

\* subprocess.Popen: the child runs, the three pipes are empty and open
Spawn ==
    /\ child' = "running" /\ childOp' = "idle" /\ childLine' = <<>>
    /\ inPipe' = <<>> /\ outPipe' = <<>> /\ errPipe' = <<>>
    /\ inClosed' = FALSE
    /\ outLeft' = MaxOut
    /\ errLeft' = MaxErr
    /\ sinkLog' = <<>> /\ emitted' = <<>>
    /\ srcPos' = 0 /\ sent' = 0 /\ writeFailed' = FALSE /\ dataChunks' = 0
    /\ wr' = "none" /\ rr' = "none" /\ dr' = "none"
    /\ events' = <<>> /\ lastEvent' = <<>> /\ nHandled' = 0
    /\ handlerErr' = "" /\ callerErr' = ""

\* InputStep with the writer thread started before the passphrase line is
\* written
InputStepWriterFirst(pc, pp) ==
    IF pc = "open" THEN "start_writer"
    ELSE IF pc = "start_writer"
         THEN (IF Truthy(pp) THEN "write_pass" ELSE "start_readers")
    ELSE "start_readers"

\* the order of the steps of _handle_io and of sign_file between
\* _open_subprocess and _collect_output: the passphrase line first, when
\* `if passphrase:` holds, then the writer thread
InputStep(pc, pp) ==
    IF pc = "open" THEN (IF Truthy(pp) THEN "write_pass" ELSE "start_writer")
    ELSE IF pc = "write_pass" THEN "start_writer"
    ELSE "start_readers"

\* _handle_io up to _open_subprocess (every facade passes binary=True, so
\* stdin is the child's pipe itself)
HandleIo(f, pp, okStream, n, bails) ==
    /\ mainpc = "idle"
    /\ f.op = "handle_io"
    /\ call' = [op |-> f.op, name |-> f.name, passphrase |-> pp,
                passFd |-> (pp # None), instreamOK |-> okStream,
                srcLen |-> n, bails |-> bails]
    /\ rtype' = f.rtype /\ res' = NewResult(f.rtype)
    /\ Spawn
    /\ mainpc' = InputStep("open", pp)
    /\ UNCHANGED <<argvars, fnvars>>

\* sign_file up to _open_subprocess
SignFile(f, pp, okStream, n, bails) ==
    /\ mainpc = "idle"
    /\ f.op = "sign_file"
    /\ call' = [op |-> f.op, name |-> f.name, passphrase |-> pp,
                passFd |-> (pp # None), instreamOK |-> okStream,
                srcLen |-> n, bails |-> bails]
    /\ rtype' = f.rtype /\ res' = NewResult(f.rtype)
    /\ Spawn
    /\ mainpc' = InputStep("open", pp)
    /\ UNCHANGED <<argvars, fnvars>>

\* delete_keys, list_keys: _open_subprocess, then _collect_output without a
\* writer
NoWriterCall(f, bails) ==
    /\ mainpc = "idle"
    /\ f.op = "collect"
    /\ call' = [op |-> f.op, name |-> f.name, passphrase |-> None,
                passFd |-> FALSE, instreamOK |-> TRUE, srcLen |-> 0,
                bails |-> bails]
    /\ rtype' = f.rtype /\ res' = NewResult(f.rtype)
    /\ Spawn
    /\ mainpc' = "start_readers"
    /\ UNCHANGED <<argvars, fnvars>>

\* _write_passphrase: the line '%s\n' % passphrase
PassphraseLine(pp) == pp \o <<"\n">>

PassItem(pp) == [kind |-> "pass", text |-> PassphraseLine(pp), off |-> 0, len |-> 0]
DataItem(o, n) == [kind |-> "data", text |-> <<>>, off |-> o, len |-> n]

\* _write_passphrase, called by the calling thread itself.  In _handle_io
\* an IOError goes to the caller; sign_file catches it and goes on without
\* a writer.
WritePassphrase ==
    /\ mainpc = "write_pass"
    /\ IF BrokenPipe
       THEN /\ IF call.op = "handle_io"
               THEN mainpc' = "raised" /\ callerErr' = "IOError"
               ELSE mainpc' = "start_readers" /\ callerErr' = callerErr
            /\ UNCHANGED <<inPipe, sinkLog>>
       ELSE /\ Len(inPipe) < PipeCap
            /\ inPipe' = Append(inPipe, PassItem(call.passphrase))
            /\ sinkLog' = Append(sinkLog, PassItem(call.passphrase))
            /\ mainpc' = InputStep("write_pass", call.passphrase)
            /\ callerErr' = callerErr
    /\ UNCHANGED <<call, wr, rr, dr, srcPos, sent, writeFailed, inClosed,
                   outPipe, errPipe, child, childOp, childLine, outLeft, errLeft, dataChunks>>
    /\ UNCHANGED resvars
    /\ UNCHANGED <<argvars, fnvars>>
    /\ UNCHANGED emitted

\* _threaded_copy_data
StartWriter ==
    /\ mainpc = "start_writer"
    /\ wr' = "check"
    /\ mainpc' = InputStep("start_writer", call.passphrase)
    /\ UNCHANGED <<call, rr, dr, srcPos, sent, writeFailed, inPipe, inClosed,
                   outPipe, errPipe, child, childOp, childLine, outLeft, errLeft, sinkLog,
                   dataChunks, callerErr>>
    /\ UNCHANGED resvars
    /\ UNCHANGED <<argvars, fnvars>>
    /\ UNCHANGED emitted

\* _copy_data: the two assertions on its arguments; a rejected stream makes
\* it return at once
CopyDataCheck ==
    /\ wr = "check"
    /\ wr' = IF call.instreamOK THEN "copy" ELSE "done"
    /\ UNCHANGED <<call, mainpc, rr, dr, srcPos, sent, writeFailed, inPipe,
                   inClosed, outPipe, errPipe, child, childOp, childLine, outLeft, errLeft,
                   sinkLog, dataChunks, callerErr>>
    /\ UNCHANGED resvars
    /\ UNCHANGED <<argvars, fnvars>>
    /\ UNCHANGED emitted

\* the size of the next instream.read(1024)
ReadSize(len, pos) == Min(CHUNK, len - pos)

\* what _copy_data does after a write raised IOError
AfterWriteError == "close"

\* _copy_data: one turn of the loop, a read of at most 1024 bytes and the
\* write of what was read
CopyDataChunk ==
    /\ wr = "copy"
    /\ LET n == ReadSize(call.srcLen, srcPos)
       IN  IF n = 0
           THEN /\ wr' = "close"
                /\ UNCHANGED <<srcPos, sent, writeFailed, inPipe, sinkLog>>
           ELSE IF BrokenPipe
           THEN /\ wr' = AfterWriteError
                /\ writeFailed' = TRUE
                /\ srcPos' = srcPos + n
                /\ sent' = sent + n
                /\ UNCHANGED <<inPipe, sinkLog>>
           ELSE /\ Len(inPipe) < PipeCap
                /\ inPipe' = Append(inPipe, DataItem(srcPos, n))
                /\ sinkLog' = Append(sinkLog, DataItem(srcPos, n))
                /\ srcPos' = srcPos + n
                /\ sent' = sent + n
                /\ UNCHANGED <<wr, writeFailed>>
    /\ UNCHANGED <<call, mainpc, rr, dr, inClosed, outPipe, errPipe, child, childOp, childLine,
                   outLeft, errLeft, dataChunks, callerErr>>
    /\ UNCHANGED resvars
    /\ UNCHANGED <<argvars, fnvars>>
    /\ UNCHANGED emitted

\* _copy_data: outstream.close()
CopyDataClose ==
    /\ wr = "close"
    /\ inClosed' = TRUE
    /\ wr' = "done"
    /\ UNCHANGED <<call, mainpc, rr, dr, srcPos, sent, writeFailed, inPipe,
                   outPipe, errPipe, child, childOp, childLine, outLeft, errLeft, sinkLog,
                   dataChunks, callerErr>>
    /\ UNCHANGED resvars
    /\ UNCHANGED <<argvars, fnvars>>
    /\ UNCHANGED emitted

\* a _read_response that hands the handler the keyword and no value
ParseLineKeywordOnly(raw) ==
    LET line == RStrip(raw)
    IN  IF Len(line) >= 2 /\ line[1] = "[GNUPG:]" /\ line[2] = SP
        THEN LET L == Split1(SubSeq(line, 3, Len(line)))
             IN  [marked |-> TRUE, keyword |-> L[1][1], value |-> <<>>]
        ELSE [marked |-> FALSE, keyword |-> "", value |-> <<>>]

\* one line of the diagnostic channel as _read_response takes it apart:
\* whether it carries the marker, and the keyword and value if it does
ParseLine(raw) ==
    LET line == RStrip(raw)
    IN  IF Len(line) >= 2 /\ line[1] = "[GNUPG:]" /\ line[2] = SP
        THEN LET L == Split1(SubSeq(line, 3, Len(line)))
             IN  [marked |-> TRUE, keyword |-> L[1][1],
                  value |-> IF Len(L) > 1 THEN L[2] ELSE <<>>]
        ELSE [marked |-> FALSE, keyword |-> "", value |-> <<>>]

\* end of stream on a channel of the child: nothing buffered and the
\* child's end closed
AtEof(pipe) == pipe = <<>> /\ child = "exited"

\* what becomes of the thread of _read_response when a handler raises
AfterHandlerError == "dead"

\* _read_response: one readline, and the handler call for a marked line; at
\* end of stream the thread stores result.stderr and ends.  A handler that
\* raises ends the thread.
ReadResponse ==
    /\ rr = "run"
    /\ IF errPipe # <<>>
       THEN LET p == ParseLine(Head(errPipe))
                h == HandleStatus(rtype, res, p.keyword, p.value)
            IN  /\ errPipe' = Tail(errPipe)
                /\ IF p.marked
                   THEN /\ events' = Append(events, <<p.keyword, p.value>>)
                        /\ lastEvent' = <<p.keyword, p.value>>
                        /\ nHandled' = nHandled + 1
                        /\ res' = h.r
                        /\ handlerErr' = h.err
                        /\ rr' = IF h.err = "" THEN "run" ELSE AfterHandlerError
                   ELSE UNCHANGED <<events, lastEvent, nHandled, res,
                                    handlerErr, rr>>
       ELSE /\ AtEof(errPipe)
            /\ rr' = "done"
            /\ UNCHANGED <<errPipe, events, lastEvent, nHandled, res,
                           handlerErr>>
    /\ UNCHANGED <<call, mainpc, wr, dr, srcPos, sent, writeFailed, inPipe,
                   inClosed, outPipe, child, childOp, childLine, outLeft, errLeft, sinkLog,
                   dataChunks, rtype, callerErr>>
    /\ UNCHANGED <<argvars, fnvars>>
    /\ UNCHANGED emitted

\* _read_data: one read of the output channel; at end of stream the thread
\* stores result.data and ends
ReadData ==
    /\ dr = "run"
    /\ IF outPipe # <<>>
       THEN /\ outPipe' = Tail(outPipe)
            /\ dataChunks' = dataChunks + 1
            /\ dr' = dr
       ELSE /\ AtEof(outPipe)
            /\ dr' = "done"
            /\ UNCHANGED <<outPipe, dataChunks>>
    /\ UNCHANGED <<call, mainpc, wr, rr, srcPos, sent, writeFailed, inPipe,
                   inClosed, errPipe, child, childOp, childLine, outLeft, errLeft, sinkLog,
                   callerErr>>
    /\ UNCHANGED resvars
    /\ UNCHANGED <<argvars, fnvars>>
    /\ UNCHANGED emitted

(* The child process.  It reads its input, writes chunks to its output    *)
(* channel and lines to its diagnostic channel, in any order, and exits.   *)
(* A write to a full pipe blocks it until the pipe has room.  A child      *)
(* that does not bail exits only after it has read its input to the end;   *)
(* one that bails may exit at any time it is not blocked.                  *)

ChildRead ==
    /\ child = "running" /\ childOp = "idle"
    /\ inPipe # <<>>
    /\ inPipe' = Tail(inPipe)
    /\ UNCHANGED <<call, mainpc, wr, rr, dr, srcPos, sent, writeFailed,
                   inClosed, outPipe, errPipe, child, childOp, childLine,
                   outLeft, errLeft, sinkLog, dataChunks, callerErr>>
    /\ UNCHANGED resvars
    /\ UNCHANGED <<argvars, fnvars>>
    /\ UNCHANGED emitted

ChildWriteOut ==
    /\ child = "running" /\ childOp = "idle"
    /\ outLeft > 0
    /\ outLeft' = outLeft - 1
    /\ IF Len(outPipe) < PipeCap
       THEN outPipe' = Append(outPipe, "chunk") /\ childOp' = childOp
       ELSE outPipe' = outPipe /\ childOp' = "out"
    /\ UNCHANGED <<call, mainpc, wr, rr, dr, srcPos, sent, writeFailed,
                   inPipe, inClosed, errPipe, child, childLine, errLeft,
                   sinkLog, dataChunks, callerErr>>
    /\ UNCHANGED resvars
    /\ UNCHANGED <<argvars, fnvars>>
    /\ UNCHANGED emitted

ChildWriteErr(line) ==
    /\ child = "running" /\ childOp = "idle"
    /\ errLeft > 0
    /\ errLeft' = errLeft - 1
    /\ IF Len(errPipe) < PipeCap
       THEN /\ errPipe' = Append(errPipe, line)
            /\ emitted' = Append(emitted, line)
            /\ UNCHANGED <<childOp, childLine>>
       ELSE /\ errPipe' = errPipe /\ childOp' = "err" /\ childLine' = line
            /\ UNCHANGED emitted
    /\ UNCHANGED <<call, mainpc, wr, rr, dr, srcPos, sent, writeFailed,
                   inPipe, inClosed, outPipe, child, outLeft, sinkLog,
                   dataChunks, callerErr>>
    /\ UNCHANGED resvars
    /\ UNCHANGED <<argvars, fnvars>>

\* a blocked write completes once the pipe has room
ChildResume ==
    /\ child = "running"
    /\ \/ /\ childOp = "out" /\ Len(outPipe) < PipeCap
          /\ outPipe' = Append(outPipe, "chunk")
          /\ UNCHANGED <<errPipe, emitted>>
       \/ /\ childOp = "err" /\ Len(errPipe) < PipeCap
          /\ errPipe' = Append(errPipe, childLine)
          /\ emitted' = Append(emitted, childLine)
          /\ UNCHANGED outPipe
    /\ childOp' = "idle" /\ childLine' = <<>>
    /\ UNCHANGED <<call, mainpc, wr, rr, dr, srcPos, sent, writeFailed,
                   inPipe, inClosed, child, outLeft, errLeft, sinkLog,
                   dataChunks, callerErr>>
    /\ UNCHANGED resvars
    /\ UNCHANGED <<argvars, fnvars>>

\* the child has read its input to the end
ChildSawEof == inPipe = <<>> /\ inClosed

ChildExit ==
    /\ child = "running" /\ childOp = "idle"
    /\ call.bails \/ ChildSawEof
    /\ child' = "exited"
    /\ inPipe' = <<>>
    /\ UNCHANGED <<call, mainpc, wr, rr, dr, srcPos, sent, writeFailed,
                   inClosed, outPipe, errPipe, childOp, childLine, outLeft,
                   errLeft, sinkLog, dataChunks, callerErr>>
    /\ UNCHANGED resvars
    /\ UNCHANGED <<argvars, fnvars>>
    /\ UNCHANGED emitted

(* _collect_output, step by step *)

\* rr.start() and dr.start()
StartReaders ==
    /\ mainpc = "start_readers"
    /\ rr' = "run" /\ dr' = "run"
    /\ mainpc' = "join_dr"
    /\ UNCHANGED <<call, wr, srcPos, sent, writeFailed, inPipe, inClosed,
                   outPipe, errPipe, child, childOp, childLine, outLeft, errLeft, sinkLog,
                   dataChunks, callerErr>>
    /\ UNCHANGED resvars
    /\ UNCHANGED <<argvars, fnvars>>
    /\ UNCHANGED emitted

\* a thread that join() returns for: it has ended, normally or by an error
Ended(t) == t \in {"done", "dead"}

\* an order in which the child's input is closed before its exit is awaited
CollectStepCloseFirst(pc) ==
    CASE pc = "join_dr" -> "join_rr"
      [] pc = "join_rr" -> "join_wr"
      [] pc = "join_wr" -> "close_stdin"
      [] pc = "close_stdin" -> "wait"
      [] pc = "wait" -> "close_stderr"
      [] pc = "close_stderr" -> "close_stdout"
      [] pc = "close_stdout" -> "returned"

\* the step of _collect_output after the one at pc
CollectStep(pc) ==
    CASE pc = "join_dr" -> "join_rr"
      [] pc = "join_rr" -> "join_wr"
      [] pc = "join_wr" -> "wait"
      [] pc = "wait" -> "close_stdin"
      [] pc = "close_stdin" -> "close_stderr"
      [] pc = "close_stderr" -> "close_stdout"
      [] pc = "close_stdout" -> "returned"

\* dr.join(); rr.join(); writer.join() when there is a writer;
\* process.wait()
Join ==
    /\ \/ mainpc = "join_dr" /\ Ended(dr)
       \/ mainpc = "join_rr" /\ Ended(rr)
       \/ mainpc = "join_wr" /\ (wr = "none" \/ Ended(wr))
       \/ mainpc = "wait" /\ child = "exited"
    /\ mainpc' = CollectStep(mainpc)
    /\ UNCHANGED <<call, wr, rr, dr, srcPos, sent, writeFailed, inPipe,
                   inClosed, outPipe, errPipe, child, childOp, childLine, outLeft, errLeft,
                   sinkLog, dataChunks, callerErr>>
    /\ UNCHANGED resvars
    /\ UNCHANGED <<argvars, fnvars>>
    /\ UNCHANGED emitted

\* stdin.close() (an IOError is ignored), stderr.close(), stdout.close(),
\* and the return to the caller of the facade
CloseAndReturn ==
    /\ mainpc \in {"close_stdin", "close_stderr", "close_stdout"}
    /\ inClosed' = TRUE
    /\ mainpc' = CollectStep(mainpc)
    /\ UNCHANGED <<call, wr, rr, dr, srcPos, sent, writeFailed, inPipe,
                   outPipe, errPipe, child, childOp, childLine, outLeft, errLeft, sinkLog,
                   dataChunks, callerErr>>
    /\ UNCHANGED resvars
    /\ UNCHANGED <<argvars, fnvars>>
    /\ UNCHANGED emitted

InitIO ==
    /\ call = NoCall /\ mainpc = "idle"
    /\ wr = "none" /\ rr = "none" /\ dr = "none"
    /\ srcPos = 0 /\ sent = 0 /\ writeFailed = FALSE
    /\ inPipe = <<>> /\ inClosed = FALSE /\ outPipe = <<>> /\ errPipe = <<>>
    /\ child = "none" /\ childOp = "idle" /\ childLine = <<>>
    /\ outLeft = 0 /\ errLeft = 0
    /\ sinkLog = <<>> /\ dataChunks = 0 /\ emitted = <<>>
    /\ rtype = "list" /\ res = NewResult("list")
    /\ events = <<>> /\ lastEvent = <<>> /\ nHandled = 0
    /\ handlerErr = "" /\ callerErr = ""
    /\ ArgsIdle

vars == <<call, mainpc, wr, rr, dr, srcPos, sent, writeFailed, inPipe,
          inClosed, outPipe, errPipe, child, childOp, childLine, outLeft,
          errLeft, sinkLog, dataChunks, rtype, res, events, lastEvent,
          nHandled, handlerErr, callerErr, gpg, ctorIn, ctorErr, margs, cmd,
          emitted, fnIn, fnOut>>

NextIO ==
    \/ \E f \in Facades, pp \in Passphrases, okStream \in BOOLEAN,
          n \in SrcLens, bails \in BOOLEAN :
            \/ HandleIo(f, pp, okStream, n, bails)
            \/ SignFile(f, pp, okStream, n, bails)
            \/ NoWriterCall(f, bails)
    \/ WritePassphrase
    \/ StartWriter
    \/ CopyDataCheck
    \/ CopyDataChunk
    \/ CopyDataClose
    \/ ReadResponse
    \/ ReadData
    \/ ChildRead
    \/ ChildWriteOut
    \/ \E line \in IOLines : ChildWriteErr(line)
    \/ ChildResume
    \/ ChildExit
    \/ StartReaders
    \/ Join
    \/ CloseAndReturn

SpecIO == InitIO /\ [][NextIO]_vars

----------------------------------------------------------------------------
(* The status handlers on their own: a fresh Result of any class is handed *)
(* status events one after the other                                       *)

\* every keyword some handler of the code names, and one that none names
StatusKeys ==
    DOMAIN TRUST_LEVELS \cup
    {"RSA_OR_IDEA", "NODATA", "IMPORT_RES", "PLAINTEXT", "PLAINTEXT_LENGTH",
     "POLICY_URL", "DECRYPTION_INFO", "DECRYPTION_OKAY", "INV_SGNR", "BADSIG",
     "GOODSIG", "VALIDSIG", "SIG_ID", "ERRSIG", "DECRYPTION_FAILED",
     "NO_PUBKEY", "KEYEXPIRED", "SIGEXPIRED", "EXPKEYSIG", "REVKEYSIG",
     "ENC_TO", "USERID_HINT", "GOODMDC", "END_DECRYPTION", "BEGIN_SIGNING",
     "NO_SECKEY", "ERROR", "CARDCTRL", "NEED_PASSPHRASE", "BAD_PASSPHRASE",
     "GOOD_PASSPHRASE", "MISSING_PASSPHRASE", "KEY_NOT_CREATED",
     "NEED_PASSPHRASE_SYM", "BEGIN_DECRYPTION", "BEGIN_ENCRYPTION",
     "END_ENCRYPTION", "INV_RECP", "SIG_CREATED", "PROGRESS", "KEY_CREATED",
     "DELETE_PROBLEM", "IMPORTED", "IMPORT_OK", "IMPORT_PROBLEM",
     "FROBNICATE"}

\* values of status lines: none, one field, two, three and six fields
StatusValues ==
    {<<>>,
     <<"1">>,
     <<"17", SP, "FPR1">>,
     <<"KEYID", SP, "Alice", SP, "Smith">>,
     <<"S", SP, "1", SP, "2", SP, "00", SP, "TS", SP, "FPR2">>}

InitStatus ==
    /\ rtype \in ResultTypes
    /\ res = NewResult(rtype)
    /\ events = <<>> /\ lastEvent = <<>> /\ nHandled = 0
    /\ handlerErr = "" /\ callerErr = ""
    /\ call = NoCall /\ mainpc = "idle"
    /\ wr = "none" /\ rr = "none" /\ dr = "none"
    /\ srcPos = 0 /\ sent = 0 /\ writeFailed = FALSE
    /\ inPipe = <<>> /\ inClosed = FALSE /\ outPipe = <<>> /\ errPipe = <<>>
    /\ child = "none" /\ childOp = "idle" /\ childLine = <<>>
    /\ outLeft = 0 /\ errLeft = 0
    /\ sinkLog = <<>> /\ dataChunks = 0 /\ emitted = <<>>
    /\ ArgsIdle

\* result.handle_status(key, value)
Handle(key, value) ==
    /\ nHandled < MaxEvents
    /\ LET h == HandleStatus(rtype, res, key, value)
       IN  res' = h.r /\ handlerErr' = h.err
    /\ lastEvent' = <<key, value>>
    /\ nHandled' = nHandled + 1
    /\ UNCHANGED <<rtype, events, callerErr>>
    /\ UNCHANGED iovars
    /\ UNCHANGED <<argvars, fnvars>>

\* every keyword with every value, the import keywords with values of
\* their own (two more reasons, and the thirteen counters of IMPORT_RES
\* with not_imported zero and not zero), and DELETE_PROBLEM with three more
\* codes
NextStatus ==
    \/ \E key \in StatusKeys, value \in StatusValues : Handle(key, value)
    \/ \E key \in {"IMPORT_OK", "IMPORT_PROBLEM", "IMPORT_RES"} :
           \E value \in {<<"0", SP, "FPR3">>, <<"6", SP, "FPR3">>,
                         JoinSp([i \in 1..13 |-> <<"0">>]),
                         JoinSp([i \in 1..13 |-> IF i = 13 THEN <<"2">> ELSE <<"1">>])} :
               Handle(key, value)
    \/ \E value \in {<<"2">>, <<"3">>, <<"4">>} : Handle("DELETE_PROBLEM", value)

SpecStatus == InitStatus /\ [][NextStatus]_vars

----------------------------------------------------------------------------
(* The status events of one call that verifies, decrypts or encrypts: a    *)
(* fresh Verify or Crypt is handed events, and the keywords handed are     *)
(* remembered in order                                                     *)

InitSession == InitStatus /\ rtype \in {"crypt", "verify"}

\* result.handle_status(key, value); events holds the keywords so far
Deliver(key, value) ==
    /\ nHandled < MaxEvents
    /\ LET h == HandleStatus(rtype, res, key, value)
       IN  res' = h.r /\ handlerErr' = h.err
    /\ events' = Append(events, key)
    /\ lastEvent' = <<key, value>>
    /\ nHandled' = nHandled + 1
    /\ UNCHANGED <<rtype, callerErr>>
    /\ UNCHANGED iovars
    /\ UNCHANGED <<argvars, fnvars>>

\* the keywords that Verify or Crypt name and one that neither names (the
\* keywords of the other classes are as unknown to them as that one), with
\* values of no field, of three and of six
NextSession ==
    \E key \in StatusKeys \ {"PROGRESS", "KEY_CREATED", "DELETE_PROBLEM",
                              "IMPORTED", "IMPORT_OK", "IMPORT_PROBLEM"} :
        \E value \in {v \in StatusValues : Len(v) \notin {1, 3}} :
            Deliver(key, value)

SpecSession == InitSession /\ [][NextSession]_vars

----------------------------------------------------------------------------
(* The GPG object and its argument vector *)

SL == "/"
DOT == "."

\* os.path.isabs
IsAbs(path) == path # <<>> /\ path[1] = SL

\* os.path.join of two paths
PathJoin(a, b) ==
    IF IsAbs(b) THEN b
    ELSE IF a = <<>> \/ Last(a) = SL THEN a \o b
    ELSE a \o <<SL>> \o b

\* the loop of os.path.normpath over the components of a path
RECURSIVE NormComps(_, _, _)
NormComps(comps, initial, new_comps) ==
    IF comps = <<>> THEN new_comps
    ELSE LET comp == Head(comps)
         IN  IF comp = <<>> \/ comp = <<DOT>>
             THEN NormComps(Tail(comps), initial, new_comps)
             ELSE IF \/ comp # <<DOT, DOT>>
                     \/ (~initial /\ new_comps = <<>>)
                     \/ (new_comps # <<>> /\ Last(new_comps) = <<DOT, DOT>>)
             THEN NormComps(Tail(comps), initial, Append(new_comps, comp))
             ELSE IF new_comps # <<>>
             THEN NormComps(Tail(comps), initial, Front(new_comps))
             ELSE NormComps(Tail(comps), initial, new_comps)

RECURSIVE JoinOn(_, _)
JoinOn(parts, sep) ==
    IF parts = <<>> THEN <<>>
    ELSE IF Len(parts) = 1 THEN parts[1]
    ELSE parts[1] \o <<sep>> \o JoinOn(Tail(parts), sep)

\* os.path.normpath (of a path that does not start with exactly two
\* slashes)
NormPath(path) ==
    LET initial == IsAbs(path)
        joined == JoinOn(NormComps(SplitOn(path, SL), initial, <<>>), SL)
        full == IF initial THEN <<SL>> \o joined ELSE joined
    IN  IF full = <<>> THEN <<DOT>> ELSE full

\* the working directory of the process, and the one directory of its PATH
Cwd == <<SL, "work">>
PathDir == <<SL, "usr", SL, "bin">>

\* os.path.abspath
AbsPath(path) == NormPath(IF IsAbs(path) THEN path ELSE PathJoin(Cwd, path))

\* _which: the paths of the executables of that name on the PATH;
\* installed is the set of names os.access finds executable in PathDir
Which(executable, installed) ==
    IF executable \in installed THEN <<PathJoin(PathDir, executable)>> ELSE <<>>

GpgName == <<"gpg">>

\* truth value of an argument that is a string, a list or None
ArgTruthy(a) == a.t # "none" /\ a.v # <<>>

\* GPG.__init__: the object it builds, or the error it raises.  installed
\* and links describe the host (the executables on the PATH, and those of
\* them that are symbolic links, whether the home directory can be read
\* and written); returncode is that of "gpg --version".
GpgInit(gpgbinary, gpghome, use_agent, keyring, secring, pubring, options, installed, links, homeRW, returncode) ==
    LET home0 == IF Truthy(gpghome) THEN gpghome ELSE PathJoin(Cwd, <<"gnupg">>)
        home1 == FixUnsafe(home0)
        home == IF IsAbs(home1) THEN home1 ELSE AbsPath(home1)
        found == IF gpgbinary # None /\ ~IsAbs(gpgbinary)
                 THEN Which(gpgbinary, installed) ELSE <<>>
        fallback == Which(GpgName, installed)
        bin == IF found # <<>> THEN found[1] ELSE fallback[1]
        binSet == IsAbs(bin) /\ bin \notin links
        ring == IF keyring # None THEN keyring ELSE secring
        sec == IF ring = None THEN <<"secring", DOT, "gpg">> ELSE FixUnsafe(ring)
        pub == IF pubring = None THEN <<"pubring", DOT, "gpg">> ELSE FixUnsafe(pubring)
        opts == IF ArgTruthy(options) THEN StrArg(Sanitise(options).text)
                ELSE NoneArg
        obj == [made |-> TRUE, gpgbinary |-> bin, gpghome |-> home,
                secring |-> PathJoin(home, sec), pubring |-> PathJoin(home, pub),
                keyring |-> PathJoin(home, sec), options |-> opts,
                use_agent |-> use_agent]
    IN  IF found = <<>> /\ fallback = <<>>
        THEN [obj |-> NoGpg, err |-> "RuntimeError: gpg is not installed"]
        ELSE IF keyring # None
        THEN [obj |-> NoGpg, err |-> "NameError"]
        ELSE IF ArgTruthy(options) /\ Sanitise(options).err # ""
        THEN [obj |-> NoGpg, err |-> Sanitise(options).err]
        ELSE IF ~homeRW \/ ~binSet \/ (ArgTruthy(opts) /\ options.t # "str")
        THEN [obj |-> NoGpg, err |-> "RuntimeError"]
        ELSE IF returncode # 0
        THEN [obj |-> NoGpg, err |-> "RuntimeError: Error invoking gpg"]
        ELSE [obj |-> obj, err |-> ""]

\* the elements make_args puts in the list whatever options and
\* arguments it is given
FixedArgs(self, passphrase) ==
    <<self.gpgbinary,
      Flag(<<"status", "fd">>) \o <<SP, "2", SP>> \o Flag(<<"no", "tty">>)>>
    \o (IF self.gpghome # <<>>
        THEN << Flag(<<"homedir">>) \o <<SP, DQ>> \o self.gpghome \o <<DQ>> >>
        ELSE <<>>)
    \o (IF self.keyring # <<>>
        THEN << Flag(<<"no", "default", "keyring">>) \o <<SP>>
                \o Flag(<<"keyring">>) \o <<SP, DQ>> \o self.keyring \o <<DQ>> >>
        ELSE <<>>)
    \o (IF passphrase
        THEN << Flag(<<"batch">>) \o <<SP>> \o Flag(<<"passphrase", "fd">>)
                \o <<SP, "0">> >>
        ELSE <<>>)
    \o (IF self.use_agent THEN << Flag(<<"use", "agent">>) >> ELSE <<>>)

\* what make_args appends for the options, and for the arguments: the
\* results of _sanitise_list when the value is true, nothing otherwise
Appended(a) ==
    IF ArgTruthy(a) THEN SanitiseList(a) ELSE [out |-> <<>>, err |-> ""]

\* the list make_args returns, or the error that ends it
CmdOf(fixed, opts, rest) ==
    IF opts.err # "" THEN [cmd |-> <<>>, err |-> opts.err]
    ELSE IF rest.err # "" THEN [cmd |-> <<>>, err |-> rest.err]
    ELSE [cmd |-> fixed \o opts.out \o rest.out, err |-> ""]

\* GPG.make_args
MakeArgsOf(self, args, passphrase) ==
    CmdOf(FixedArgs(self, passphrase), Appended(self.options), Appended(args))

\* the inputs of the constructor and of make_args
MyGpg == <<"my", SP, "gpg">>
BinaryNames == {None, GpgName, MyGpg}
HomeDirs == {None, <<DOT, SL, "keys">>, <<"my", SP, "it", SQ, "s">>}
RingNames == {None, <<"my", SP, "ring">>}
OldRingNames == {None, <<"old", DOT, "gpg">>}
Hosts ==
    {[installed |-> {GpgName, MyGpg}, links |-> {}, rw |-> TRUE, rc |-> 0],
     [installed |-> {GpgName}, links |-> {}, rw |-> TRUE, rc |-> 0],
     [installed |-> {}, links |-> {}, rw |-> TRUE, rc |-> 0],
     [installed |-> {GpgName}, links |-> {PathJoin(PathDir, GpgName)},
      rw |-> TRUE, rc |-> 0],
     [installed |-> {GpgName}, links |-> {}, rw |-> FALSE, rc |-> 0],
     [installed |-> {GpgName}, links |-> {}, rw |-> TRUE, rc |-> 2]}

Bicycle == Flag(<<"bicycle">>)
Train == <<"train">>
ListKeysName == <<"list", US, "keys">>
ArgStrings ==
    {Flag(<<"encrypt">>), Bicycle, ListKeysName,
     Flag(<<"gen", "key">>) \o <<SP>> \o Flag(<<"batch">>),
     Flag(<<"import">>) \o <<SP, "keyfile">>}
CtorOptions ==
    {NoneArg, StrArg(Flag(<<"version">>)), ListArg(<<Flag(<<"version">>)>>)}
OptionLists == {<<Bicycle, Train>>, <<Flag(<<"encrypt">>)>>}

SeqsUpTo(S, n) == UNION {[1..k -> S] : k \in 0..n}

\* '"%s"' % text
Quoted(text) == <<DQ>> \o text \o <<DQ>>

\* the args list a facade operation builds before it opens the child:
\* encrypt_file (not symmetric, armor as by default), decrypt_file,
\* sign_file (not binary, clearsign as by default), delete_keys and
\* export_keys (of a sequence of keys)
FacadeArgs(f) ==
    CASE f.op = "encrypt_file" ->
             (IF f.symmetric
              THEN <<Flag(<<"symmetric">>)>>
              ELSE <<Flag(<<"encrypt">>)>>
                   \o [i \in 1..Len(f.keys) |->
                          Flag(<<"recipient">>) \o <<SP>> \o Quoted(f.keys[i])])
             \o <<Flag(<<"armor">>)>>
             \o (IF f.output # None
                 THEN <<Flag(<<"output">>) \o <<SP>> \o Quoted(f.output)>>
                 ELSE <<>>)
             \o (IF f.sign # None
                 THEN <<Flag(<<"sign">>) \o <<SP>> \o Flag(<<"default", "key">>)
                            \o <<SP>> \o Quoted(f.sign)>>
                 ELSE <<>>)
      [] f.op = "decrypt_file" ->
             <<Flag(<<"decrypt">>)>>
             \o (IF f.output # None
                 THEN <<Flag(<<"output">>) \o <<SP>> \o Quoted(f.output)>>
                 ELSE <<>>)
      [] f.op = "sign_file" ->
             <<<<HY, "sa">>, Flag(<<"clearsign">>)>>
             \o (IF f.sign # None
                 THEN <<Flag(<<"default", "key">>) \o <<SP>> \o Quoted(f.sign)>>
                 ELSE <<>>)
      [] f.op = "delete_keys" ->
             <<Flag(<<"batch">>) \o <<SP>> \o Flag(<<"delete", "key">>)
                   \o <<SP>> \o Quoted(JoinSp(f.keys))>>
      [] f.op = "export_keys" ->
             <<Flag(<<"armor">>) \o <<SP>> \o Flag(<<"export">>) \o <<SP>>
                   \o JoinSp([i \in 1..Len(f.keys) |-> Quoted(f.keys[i])])>>

\* the calls of the facade operations: one or two keys, with and without
\* an output path and a signing key, for recipients or with symmetric=True
FacadeCalls ==
    [op : {"encrypt_file", "decrypt_file", "sign_file", "delete_keys",
           "export_keys"},
     keys : {<<<<"KEY1">>>>, <<<<"KEY1">>, <<"KEY2">>>>},
     output : {None, <<"out", DOT, "gpg">>},
     sign : {None, <<"KEY3">>},
     symmetric : BOOLEAN]

\* gpg = GPG(gpgbinary=..., gpghome=..., ...)
Construct(gpgbinary, gpghome, use_agent, keyring, secring, options, host) ==
    /\ ctorIn = NoInput
    /\ LET r == GpgInit(gpgbinary, gpghome, use_agent, keyring, secring, None,
                        options, host.installed, host.links, host.rw, host.rc)
       IN  gpg' = r.obj /\ ctorErr' = r.err
    /\ ctorIn' = [given |-> TRUE, gpgbinary |-> gpgbinary, gpghome |-> gpghome,
                  keyring |-> keyring, secring |-> secring,
                  options |-> options, host |-> host]
    /\ UNCHANGED <<margs, cmd>>
    /\ UNCHANGED <<iovars, resvars, callerErr, fnvars>>

\* gpg.options = [...], as the tests of make_args set it
SetOptions(opts) ==
    /\ gpg.made /\ ~margs.given
    /\ gpg.options.t # "list"
    /\ gpg' = [gpg EXCEPT !.options = ListArg(opts)]
    /\ UNCHANGED <<ctorIn, ctorErr, margs, cmd>>
    /\ UNCHANGED <<iovars, resvars, callerErr, fnvars>>

\* cmd = gpg.make_args(args, passphrase)
MakeArgs(args, passphrase) ==
    /\ gpg.made /\ ~margs.given
    /\ LET r == MakeArgsOf(gpg, args, passphrase)
       IN  /\ cmd' = r.cmd
           /\ margs' = [given |-> TRUE, args |-> args,
                        passphrase |-> passphrase, err |-> r.err]
    /\ UNCHANGED <<gpg, ctorIn, ctorErr>>
    /\ UNCHANGED <<iovars, resvars, callerErr, fnvars>>

InitArgs ==
    /\ ArgsIdle
    /\ call = NoCall /\ mainpc = "idle"
    /\ wr = "none" /\ rr = "none" /\ dr = "none"
    /\ srcPos = 0 /\ sent = 0 /\ writeFailed = FALSE
    /\ inPipe = <<>> /\ inClosed = FALSE /\ outPipe = <<>> /\ errPipe = <<>>
    /\ child = "none" /\ childOp = "idle" /\ childLine = <<>>
    /\ outLeft = 0 /\ errLeft = 0
    /\ sinkLog = <<>> /\ dataChunks = 0 /\ emitted = <<>>
    /\ rtype = "list" /\ res = NewResult("list")
    /\ events = <<>> /\ lastEvent = <<>> /\ nHandled = 0
    /\ handlerErr = "" /\ callerErr = ""

NextArgs ==
    \/ \E gpgbinary \in BinaryNames, gpghome \in HomeDirs,
          use_agent \in BOOLEAN, keyring \in OldRingNames,
          secring \in RingNames, options \in CtorOptions, host \in Hosts :
            Construct(gpgbinary, gpghome, use_agent, keyring, secring,
                      options, host)
    \/ \E opts \in OptionLists : SetOptions(opts)
    \/ \E l \in SeqsUpTo(ArgStrings, MaxArgs), passphrase \in BOOLEAN :
            \/ MakeArgs(ListArg(l), passphrase)
            \/ MakeArgs(NoneArg, passphrase)
    \/ \E f \in FacadeCalls, passphrase \in BOOLEAN :
            MakeArgs(ListArg(FacadeArgs(f)), passphrase)

SpecArgs == InitArgs /\ [][NextArgs]_vars

----------------------------------------------------------------------------
(* The sanitiser and the line parser on their own: one function is applied *)
(* to one argument                                                         *)

\* symbols of the texts handed to _fix_unsafe
FixSyms == {"ab", "7", US, HY, "@", SL, SP, SQ, ";"}

\* words of the arguments handed to _sanitise: flags in and out of the
\* allow-list, attribute-style names, the name of a file, the name of none
SanWords ==
    {Flag(<<"encrypt">>), Flag(<<"import">>), Bicycle,
     <<HY, HY>> \o ListKeysName,
     ListKeysName, <<"keyfile">>, <<"nofile">>}

\* lines of the diagnostic channel: a symbol is a space or a maximal run of
\* other characters, so no two runs are adjacent
Lines ==
    {l \in SeqsUpTo({"[GNUPG:]", SP, "KEY", "v", "gpg:"}, MaxLine) :
        \A i \in 1..(Len(l) - 1) : l[i] = SP \/ l[i + 1] = SP}

\* out = fn(arg)
Apply(fn, arg, out) ==
    /\ ~fnIn.given
    /\ fnIn' = [given |-> TRUE, fn |-> fn, arg |-> arg]
    /\ fnOut' = out
    /\ UNCHANGED <<iovars, resvars, callerErr, argvars>>

FixUnsafeCall(s) == Apply("_fix_unsafe", s, FixUnsafe(s))
SanitiseCall(arg) == Apply("_sanitise", arg, Sanitise(arg))
SanitiseListCall(arg) == Apply("_sanitise_list", arg, SanitiseList(arg))
ReadLine(raw) == Apply("_read_response", raw, ParseLine(raw))

\* list_keys up to its loop: lines is the child's output after
\* splitlines(), the result is a new ListKeys, no line is consumed
ListKeysCall(lines) ==
    /\ ~fnIn.given
    /\ fnIn' = [given |-> TRUE, fn |-> "list_keys", arg |-> lines]
    /\ fnOut' = [pc |-> "loop", pos |-> 0, err |-> ""]
    /\ rtype' = "list" /\ res' = NewResult("list")
    /\ UNCHANGED <<iovars, events, lastEvent, nHandled, handlerErr,
                   callerErr, argvars>>

\* a loop that goes on when a method raises
ListKeysStepLenient ==
    /\ fnIn.given /\ fnIn.fn = "list_keys" /\ fnOut.pc = "loop"
    /\ IF fnOut.pos = Len(fnIn.arg) \/ fnIn.arg[fnOut.pos + 1] = <<>>
       THEN /\ fnOut' = [fnOut EXCEPT !.pc = "returned"]
            /\ res' = res
       ELSE LET L == SplitOn(Strip(fnIn.arg[fnOut.pos + 1]), ":")
                h == IF L # <<>> /\ L[1] \in {<<"pub">>, <<"uid">>, <<"sec">>,
                                              <<"fpr">>, <<"sub">>}
                     THEN ListKeysMethod(res, L)
                     ELSE Ok(res)
            IN  /\ res' = h.r
                /\ fnOut' = [fnOut EXCEPT !.pos = @ + 1]
    /\ UNCHANGED <<iovars, rtype, events, lastEvent, nHandled, handlerErr,
                   callerErr, argvars, fnIn>>

\* one turn of the loop of list_keys, or its end: an empty line breaks out
\* of the loop, a line whose first field is a valid keyword goes to the
\* method of that name, what a method raises leaves list_keys, and the
\* end of the loop returns the result
ListKeysStep ==
    /\ fnIn.given /\ fnIn.fn = "list_keys" /\ fnOut.pc = "loop"
    /\ IF fnOut.pos = Len(fnIn.arg) \/ fnIn.arg[fnOut.pos + 1] = <<>>
       THEN /\ fnOut' = [fnOut EXCEPT !.pc = "returned"]
            /\ res' = res
       ELSE LET L == SplitOn(Strip(fnIn.arg[fnOut.pos + 1]), ":")
                h == IF L # <<>> /\ L[1] \in {<<"pub">>, <<"uid">>, <<"sec">>,
                                              <<"fpr">>, <<"sub">>}
                     THEN ListKeysMethod(res, L)
                     ELSE Ok(res)
            IN  /\ res' = h.r
                /\ fnOut' = IF h.err = ""
                            THEN [fnOut EXCEPT !.pos = @ + 1]
                            ELSE [fnOut EXCEPT !.pc = "raised", !.err = h.err]
    /\ UNCHANGED <<iovars, rtype, events, lastEvent, nHandled, handlerErr,
                   callerErr, argvars, fnIn>>

\* str.title() of a name whose words are single symbols: each word gets a
\* capital first letter and small letters after it; a hyphen stays
TitleWord(w) ==
    CASE w \in {"key", "KEY", "Key"} -> "Key"
      [] w \in {"type", "Type"} -> "Type"
      [] w \in {"length", "LENGTH", "Length"} -> "Length"
      [] w \in {"name", "Name"} -> "Name"
      [] w \in {"real", "Real"} -> "Real"
      [] w \in {"email", "Email"} -> "Email"
      [] w \in {"expire", "Expire"} -> "Expire"
      [] w \in {"date", "Date"} -> "Date"
      [] OTHER -> w

\* key.replace('_', '-').title()
ParmName(key) ==
    [i \in 1..Len(key) |-> IF key[i] = US THEN HY ELSE TitleWord(key[i])]

\* parms[key] = val: parms is the dict as the sequence of its items, a new
\* key at the end, the value of a key it has replaced in its place
ParmsSet(parms, key, val) ==
    IF \E i \in 1..Len(parms) : parms[i][1] = key
    THEN [i \in 1..Len(parms) |->
             IF parms[i][1] = key THEN <<key, val>> ELSE parms[i]]
    ELSE Append(parms, <<key, val>>)

\* parms.setdefault(key, val)
SetDefault(parms, key, val) ==
    IF \E i \in 1..Len(parms) : parms[i][1] = key THEN parms
    ELSE Append(parms, <<key, val>>)

\* the first loop of gen_key_input: an item whose value, stripped, is the
\* empty string is skipped
RECURSIVE KwargsLoop(_, _)
KwargsLoop(items, parms) ==
    IF items = <<>> THEN parms
    ELSE KwargsLoop(Tail(items),
                    IF Strip(Head(items)[2]) # <<>>
                    THEN ParmsSet(parms, ParmName(Head(items)[1]), Head(items)[2])
                    ELSE parms)

\* the four defaults that need nothing from the environment
FixedDefaults(parms) ==
    SetDefault(
        SetDefault(
            SetDefault(
                SetDefault(parms, <<"Key", HY, "Type">>, <<"RSA">>),
                <<"Key", HY, "Length">>, <<"2048">>),
            <<"Name", HY, "Real">>, <<"Autogenerated Key">>),
        <<"Name", HY, "Comment">>, <<"Generated by gnupg.py">>)

\* "%s: %s\n" % (key, val) for the items of parms, one after the other
RECURSIVE ParmLines(_)
ParmLines(parms) ==
    IF parms = <<>> THEN <<>>
    ELSE Head(parms)[1] \o <<":", SP>> \o Head(parms)[2] \o <<"\n">>
             \o ParmLines(Tail(parms))

\* the text gen_key_input builds from parms, all defaults set: the
\* Key-Type line, popped from parms, then the other items, then %commit
GenKeyText(parms, rev) ==
    LET keyType == parms[CHOOSE i \in 1..Len(parms) :
                                parms[i][1] = <<"Key", HY, "Type">>]
        rest == SelectSeq(parms, LAMBDA it : it[1] # <<"Key", HY, "Type">>)
    IN  <<"Key", HY, "Type", ":", SP>> \o keyType[2] \o <<"\n">>
            \o ParmLines(IF rev THEN Reverse(rest) ELSE rest)
            \o <<"%commit", "\n">>

\* gen_key_input(**kwargs) in an environment env: kwargs is the sequence
\* of its items.  LOGNAME is looked up, then USERNAME, whatever kwargs
\* holds; with neither in the environment the KeyError of the second
\* lookup leaves gen_key_input.  The items of a dict come in the order of
\* insertion or in an order of the implementation's own: rev takes the
\* reverse of the order of insertion as one such order.
GenKeyInput(kwargs, env, rev) ==
    IF env.LOGNAME = None /\ env.USERNAME = None
    THEN [out |-> <<>>, err |-> "KeyError"]
    ELSE [out |-> GenKeyText(
                      SetDefault(FixedDefaults(KwargsLoop(kwargs, <<>>)),
                                 <<"Name", HY, "Email">>,
                                 Replace(IF env.LOGNAME # None THEN env.LOGNAME
                                         ELSE env.USERNAME, SP, <<US>>)
                                     \o <<"@">> \o env.hostname),
                      rev),
          err |-> ""]

GenKeyInputCall(kwargs, env, rev) ==
    Apply("gen_key_input", [kwargs |-> kwargs, env |-> env, rev |-> rev],
          GenKeyInput(kwargs, env, rev))

InitFn == InitArgs

NextFn ==
    \/ ~fnIn.given /\ \E s \in SeqsUpTo(FixSyms, MaxText) : FixUnsafeCall(s)
    \/ ~fnIn.given /\ \E ws \in SeqsUpTo(SanWords, MaxWords) :
            \/ SanitiseCall(StrArg(JoinSp(ws)))
            \/ SanitiseCall(ListArg(ws))
            \/ SanitiseListCall(ListArg(ws))
    \/ ~fnIn.given /\ \E f \in Allowed : SanitiseCall(StrArg(f))
    \/ ~fnIn.given /\ \E raw \in Lines : ReadLine(raw)
    \/ LET Colons(fields) == JoinOn(fields, ":")
           pub == Colons(<<<<"pub">>, <<"u">>, <<"2048">>, <<"1">>, <<"K1">>,
                           <<"d1">>, <<>>, <<>>, <<"u">>, <<>>>>)
           sec == Colons(<<<<"sec">>, <<"u">>, <<"2048">>, <<"1">>, <<"K2">>,
                           <<"d2">>, <<>>, <<>>, <<"u">>, <<"Al">>>>)
           short == Colons(<<<<"pub">>, <<"u">>, <<"2048">>>>)
           fpr == Colons(<<<<"fpr">>, <<>>, <<>>, <<>>, <<>>, <<>>, <<>>,
                           <<>>, <<>>, <<"F1">>>>)
           uid == Colons(<<<<"uid">>, <<>>, <<>>, <<>>, <<>>, <<>>, <<>>,
                           <<>>, <<>>, <<"Bo", "\\x3a", "b">>>>)
           sub == Colons(<<<<"sub">>, <<"u">>, <<"2048">>, <<"1">>, <<"S1">>,
                           <<"d3">>, <<>>, <<>>, <<>>, <<>>, <<>>, <<"e">>>>)
           tru == Colons(<<<<"tru">>, <<>>, <<"1">>>>)
       IN  /\ ~fnIn.given
           /\ \E lines \in SeqsUpTo({pub, sec, <<SP>> \o pub, short, fpr,
                                      uid, sub, tru, <<SP>>, <<>>}, MaxLines) :
                  ListKeysCall(lines)
    \/ ListKeysStep
    \/ ~fnIn.given /\ \E kwargs \in SeqsUpTo(
                        {<<"key", US, "type">>, <<"KEY", US, "LENGTH">>,
                         <<"name", US, "real">>, <<"name", US, "email">>,
                         <<"expire", US, "date">>}
                        \X {<<>>, <<SP>>, <<"DSA">>, <<SP, "0", SP>>},
                        MaxKwargs),
          lognames \in {<<<<"me">>, None>>, <<None, <<"A", SP, "B">>>>,
                        <<None, None>>},
          rev \in BOOLEAN :
            /\ \A i, j \in 1..Len(kwargs) : kwargs[i][1] = kwargs[j][1] => i = j
            /\ GenKeyInputCall(kwargs,
                               [LOGNAME |-> lognames[1],
                                USERNAME |-> lognames[2],
                                hostname |-> <<"host">>],
                               rev)

SpecFn == InitFn /\ [][NextFn]_vars

----------------------------------------------------------------------------
(* Claims about the I/O pipeline, checked under SpecIO *)

InCall == mainpc # "idle"
FeedsInput == InCall /\ call.op \in {"handle_io", "sign_file"}
DataLog == SelectSeq(sinkLog, LAMBDA it : it.kind = "data")

\* C1: when a facade operation returns, the child has exited, both readers
\* have reached end of stream and ended, and the writer, when one was
\* started, has ended.
C1_AllCompleteAtReturn ==
    mainpc = "returned" =>
        /\ child = "exited"
        /\ rr = "done" /\ AtEof(errPipe)
        /\ dr = "done" /\ AtEof(outPipe)
        /\ wr \in {"none", "done"}

\* C2: a call that feeds input to a child that reads its input to the end
\* before it exits never comes to a halt before it has returned: there is
\* always a thread, or the child, that can take a step.
C2_CallNeverStuck ==
    (FeedsInput /\ ~call.bails /\ mainpc \notin {"returned", "raised"})
        => ENABLED NextIO

C4_UnknownStatusReachesCaller ==
    (InCall /\ handlerErr = UnknownStatus) => mainpc # "returned"

\* C6: an IOError raised while writing input to the child, on the
\* passphrase line or on a data chunk, never reaches the caller of the
\* facade.
C6_BrokenPipeNotPropagated ==
    callerErr # "IOError" /\ mainpc # "raised"

\* C7: _copy_data has closed its sink whenever it has ended, also when it
\* gave up on a rejected stream argument.
C7_SinkClosedWhenWriterEnds ==
    wr = "done" => inClosed

\* C8: what _copy_data has written is a prefix of the source, in order, in
\* chunks of at most 1024 bytes; it is the whole source once _copy_data has
\* ended without a failed write; after a failed write the loop is left.
C8_WritesPrefixOfSource ==
    InCall =>
        /\ \A i \in 1..Len(DataLog) :
              /\ DataLog[i].len \in 1..CHUNK
              /\ DataLog[i].off = (IF i = 1 THEN 0
                                   ELSE DataLog[i - 1].off + DataLog[i - 1].len)
              /\ DataLog[i].off + DataLog[i].len <= call.srcLen
        /\ (wr = "done" /\ ~writeFailed) =>
              (IF DataLog = <<>> THEN call.srcLen = 0
               ELSE DataLog[Len(DataLog)].off + DataLog[Len(DataLog)].len
                        = call.srcLen)
        /\ writeFailed => wr \in {"close", "done"}

\* the keyword and value of each marker line among lines, in order
RECURSIVE MarkerEvents(_)
MarkerEvents(lines) ==
    IF lines = <<>> THEN <<>>
    ELSE (IF ParseLine(Head(lines)).marked
          THEN <<<<ParseLine(Head(lines)).keyword, ParseLine(Head(lines)).value>>>>
          ELSE <<>>) \o MarkerEvents(Tail(lines))

\* C17: the status events delivered to the Result of a call are exactly the
\* marker lines the child wrote to its diagnostic channel, each once and in
\* the order the child wrote them, however the reads of the output channel
\* interleave: at every moment the events delivered are the first of those
\* of the lines written, and when the call returns they are all of them.
C17_EventsAreTheMarkerLines ==
    /\ Len(events) <= Len(MarkerEvents(emitted))
    /\ events = SubSeq(MarkerEvents(emitted), 1, Len(events))
    /\ mainpc = "returned" => events = MarkerEvents(emitted)

\* C33: _collect_output goes through its completion steps in this order:
\* the writer is joined only once both readers have been joined, the
\* child's exit is awaited only after the join of the writer (when there
\* is one), the child's input is closed only after the child has exited
\* and without an error to the caller, the diagnostic and output handles
\* are closed only after that, and the call returns only after these.
C33_CompletionOrder ==
    [][mainpc' # mainpc =>
          /\ mainpc' = "join_wr" =>
                 mainpc \in {"join_dr", "join_rr"} /\ Ended(dr) /\ Ended(rr)
          /\ mainpc' = "wait" =>
                 mainpc = "join_wr" /\ (wr = "none" \/ Ended(wr))
          /\ mainpc' = "close_stdin" =>
                 mainpc = "wait" /\ child = "exited"
          /\ mainpc' \in {"close_stderr", "close_stdout"} =>
                 /\ mainpc \in {"close_stdin", "close_stderr"}
                 /\ inClosed' /\ callerErr' = callerErr
          /\ mainpc' = "returned" =>
                 mainpc \in {"close_stderr", "close_stdout"}]_vars

\* a call with a writer has gone through all the steps: the writer had
\* closed the child's input before _collect_output closed it again
C33_Witness ==
    /\ mainpc = "returned" /\ call.op = "handle_io"
    /\ wr = "done" /\ rr = "done" /\ dr = "done"
    /\ child = "exited" /\ inClosed
    /\ callerErr = ""

\* C35: in a call whose argument vector has the passphrase-via-fd flag
\* (every passphrase that is not None, the empty string too), a passphrase
\* line is on the child's input before any data.
C35_PassphraseLineWheneverFlag ==
    (FeedsInput /\ call.passFd) =>
        \A i \in 1..Len(sinkLog) :
            sinkLog[i].kind = "data" => i > 1 /\ sinkLog[1].kind = "pass"

\* C36: a call that starts no writer thread, on a child that reads its
\* input to the end before it exits, never comes to a halt before it has
\* returned (no handler having raised): there is always a thread, or the
\* child, that can take a step.
C36_NoWriterCallNeverStuck ==
    (InCall /\ call.op = "collect" /\ ~call.bails /\ handlerErr = ""
            /\ mainpc # "returned")
        => ENABLED NextIO

\* C37: when a handler has raised in the reader of the diagnostic channel,
\* the reader still reads the channel to its end: it has not ended before
\* end of stream, so nothing the child wrote stays unread in the pipe.
C37_HandlerErrorDoesNotStopReading ==
    (InCall /\ handlerErr # "" /\ Ended(rr)) => AtEof(errPipe)

----------------------------------------------------------------------------
(* Claims about the status handlers, checked under SpecStatus *)

VerifyKeys ==
    DOMAIN TRUST_LEVELS \cup
    {"RSA_OR_IDEA", "NODATA", "IMPORT_RES", "PLAINTEXT", "PLAINTEXT_LENGTH",
     "POLICY_URL", "DECRYPTION_INFO", "DECRYPTION_OKAY", "INV_SGNR", "BADSIG",
     "GOODSIG", "VALIDSIG", "SIG_ID", "ERRSIG", "DECRYPTION_FAILED",
     "NO_PUBKEY", "KEYEXPIRED", "SIGEXPIRED", "EXPKEYSIG", "REVKEYSIG"}

\* the keywords each Result class names in its handler
KnownKeys(t) ==
    CASE t = "verify" -> VerifyKeys
      [] t = "crypt" ->
            VerifyKeys \cup
            {"ENC_TO", "USERID_HINT", "GOODMDC", "END_DECRYPTION",
             "BEGIN_SIGNING", "NO_SECKEY", "ERROR", "NODATA", "CARDCTRL",
             "NEED_PASSPHRASE", "BAD_PASSPHRASE", "GOOD_PASSPHRASE",
             "MISSING_PASSPHRASE", "DECRYPTION_FAILED", "KEY_NOT_CREATED",
             "NEED_PASSPHRASE_SYM", "BEGIN_DECRYPTION", "BEGIN_ENCRYPTION",
             "DECRYPTION_OKAY", "END_ENCRYPTION", "INV_RECP", "KEYEXPIRED",
             "SIG_CREATED", "SIGEXPIRED"}
      [] t = "generate" ->
            {"PROGRESS", "GOOD_PASSPHRASE", "NODATA", "KEY_NOT_CREATED",
             "KEY_CREATED"}
      [] t = "sign" ->
            {"USERID_HINT", "NEED_PASSPHRASE", "BAD_PASSPHRASE",
             "GOOD_PASSPHRASE", "BEGIN_SIGNING", "CARDCTRL", "INV_SGNR",
             "NODATA", "SIG_CREATED"}
      [] t = "import" ->
            {"IMPORTED", "NODATA", "IMPORT_OK", "IMPORT_PROBLEM", "IMPORT_RES",
             "KEYEXPIRED", "SIGEXPIRED"}
      [] t = "delete" -> {"DELETE_PROBLEM"}
      [] t = "list" -> {}

C23_FalsyUntilKeyCreated ==
    [][rtype = "generate" =>
          /\ nHandled = 0 => res.fingerprint = None /\ ~Nonzero(rtype, res)
          /\ lastEvent'[1] \in {"PROGRESS", "GOOD_PASSPHRASE", "NODATA",
                                "KEY_NOT_CREATED"} =>
                 res' = res /\ handlerErr' = ""
          /\ lastEvent'[1] # "KEY_CREATED" => res' = res
          /\ (/\ lastEvent'[1] = "KEY_CREATED"
              /\ Len(lastEvent'[2]) = 3 /\ lastEvent'[2][2] = SP) =>
                 /\ handlerErr' = ""
                 /\ res'.type = <<lastEvent'[2][1]>>
                 /\ res'.fingerprint = <<lastEvent'[2][3]>>
                 /\ Nonzero(rtype, res')]_vars

\* a key was reported after an event that changes nothing
C23_Witness ==
    /\ rtype = "generate" /\ nHandled = 2
    /\ lastEvent = <<"KEY_CREATED", <<"17", SP, "FPR1">>>>
    /\ res = [type |-> <<"17">>, fingerprint |-> <<"FPR1">>]
    /\ Nonzero(rtype, res)

\* v is six fields with one space between them
SixFields(v) == Len(v) = 11 /\ \A i \in 1..11 : (v[i] = SP) <=> (i % 2 = 0)

\* C24: a Sign is falsy when created and stays so until a SIG_CREATED with
\* six fields (type, algo, hash-algo, class, timestamp, fingerprint) is
\* handled, which sets type, timestamp and fingerprint and makes it truthy;
\* no other event changes the result, and the passphrase events
\* NEED_PASSPHRASE, BAD_PASSPHRASE and GOOD_PASSPHRASE raise nothing, so a
\* signing attempt that reports only these ends falsy without raising.
C24_FalsyUntilSigCreated ==
    [][rtype = "sign" =>
          /\ nHandled = 0 => ~Nonzero(rtype, res)
          /\ lastEvent'[1] \in {"NEED_PASSPHRASE", "BAD_PASSPHRASE",
                                "GOOD_PASSPHRASE"} =>
                 handlerErr' = "" /\ callerErr' = ""
          /\ (lastEvent'[1] # "SIG_CREATED" \/ ~SixFields(lastEvent'[2])) =>
                 res' = res
          /\ (lastEvent'[1] = "SIG_CREATED" /\ SixFields(lastEvent'[2])) =>
                 /\ handlerErr' = ""
                 /\ res'.type = <<lastEvent'[2][1]>>
                 /\ res'.timestamp = <<lastEvent'[2][9]>>
                 /\ res'.fingerprint = <<lastEvent'[2][11]>>
                 /\ Nonzero(rtype, res')]_vars

\* a signature was reported as the second event
C24_Witness ==
    /\ rtype = "sign" /\ nHandled = 2
    /\ lastEvent[1] = "SIG_CREATED"
    /\ res = [type |-> <<"S">>, fingerprint |-> <<"FPR2">>, timestamp |-> <<"TS">>]
    /\ Nonzero(rtype, res)

\* the text u occurs in the text e
Occurs(u, e) ==
    \E i \in 1..(Len(e) - Len(u) + 1) : SubSeq(e, i, i + Len(u) - 1) = u

\* the elements of a sequence
Range(q) == {q[i] : i \in 1..Len(q)}

\* the entries of the reason table of IMPORT_OK whose code bits are all set
\* in reason: the entry of code 0 always, that of a power of two when reason
\* has that bit
ReasonTexts(reason) ==
    {"Not actually changed"} \cup
    {e[2] : e \in {e \in {<<1, "Entirely new key">>, <<2, "New user IDs">>,
                          <<4, "New signatures">>, <<8, "New subkeys">>,
                          <<16, "Contains private key">>} :
                      (reason \div e[1]) % 2 = 1}}

\* value is "<reason> <fingerprint>" with a number for reason
ReasonAndFingerprint(v) ==
    Len(v) = 3 /\ v[2] = SP /\ \E n \in 0..MaxInt : ToString(n) = v[1]

\* C25: IMPORT_OK "<reason> <fingerprint>" raises nothing, appends one
\* outcome record whose text lists exactly the entries of the reason table
\* whose code bits are all set in reason, each once, and appends the
\* fingerprint to the fingerprints of the result; no other event changes
\* that list, so it holds the fingerprints of all IMPORT_OK events in the
\* order of arrival.
C25_ImportOkRecords ==
    [][rtype = "import" =>
          /\ nHandled = 0 => res.fingerprints = <<>>
          /\ lastEvent'[1] # "IMPORT_OK" => res'.fingerprints = res.fingerprints
          /\ (lastEvent'[1] = "IMPORT_OK" /\ ReasonAndFingerprint(lastEvent'[2])) =>
                 LET v == lastEvent'[2]
                     n == CHOOSE n \in 0..MaxInt : ToString(n) = v[1]
                     rec == res'.results[Len(res'.results)]
                 IN  /\ handlerErr' = ""
                     /\ Len(res'.results) = Len(res.results) + 1
                     /\ SubSeq(res'.results, 1, Len(res.results)) = res.results
                     /\ rec.kind = "ok" /\ rec.code = <<v[1]>>
                     /\ rec.fingerprint = <<v[3]>>
                     /\ Range(rec.text) = ReasonTexts(n)
                     /\ Len(rec.text) = Cardinality(ReasonTexts(n))
                     /\ res'.fingerprints = Append(res.fingerprints, <<v[3]>>)]_vars

\* two keys were imported, the second with new user IDs and new signatures
C25_Witness ==
    /\ rtype = "import"
    /\ lastEvent = <<"IMPORT_OK", <<"6", SP, "FPR3">>>>
    /\ res.fingerprints = <<<<"FPR1">>, <<"FPR3">>>>
    /\ res.results[2].text = <<"Not actually changed", "New user IDs", "New signatures">>

\* C26: IMPORT_PROBLEM tolerates a malformed value: for every value that
\* does not split into exactly (reason, fingerprint) the handler raises
\* nothing and appends a problem record whose reason is the whole value and
\* whose fingerprint is "<unknown>".
C26_MalformedProblemTolerated ==
    (/\ rtype = "import" /\ lastEvent # <<>>
     /\ lastEvent[1] = "IMPORT_PROBLEM"
     /\ Len(Split(lastEvent[2])) # 2) =>
        /\ handlerErr = ""
        /\ res.results # <<>>
        /\ res.results[Len(res.results)].kind = "problem"
        /\ res.results[Len(res.results)].code = lastEvent[2]
        /\ res.results[Len(res.results)].fingerprint = <<"<unknown>">>

\* at least one fingerprint is recorded and not_imported is zero or unset
ImportedAll(self) ==
    /\ Len(self.fingerprints) >= 1
    /\ self.counts[13] = 0 \/ self.counts[13] = NoneInt

\* C27: an ImportResult is truthy exactly when at least one IMPORT_OK
\* fingerprint has been recorded and the not_imported counter is zero or
\* unset; it is falsy when created and NODATA leaves it as it was, so an
\* import that reports only NODATA ends falsy.
C27_TruthyIffImported ==
    [][rtype = "import" =>
          /\ nHandled = 0 => ~Nonzero(rtype, res)
          /\ Nonzero(rtype, res) <=> ImportedAll(res)
          /\ Nonzero(rtype, res') <=> ImportedAll(res')
          /\ lastEvent'[1] = "NODATA" =>
                 /\ handlerErr' = ""
                 /\ Nonzero(rtype, res') <=> Nonzero(rtype, res)
                 /\ res'.fingerprints = res.fingerprints]_vars

\* a key was imported and the counters then report keys not imported
C27_Witness ==
    /\ rtype = "import" /\ nHandled = 2
    /\ lastEvent[1] = "IMPORT_RES"
    /\ res.fingerprints # <<>> /\ res.counts[13] = 2
    /\ ~Nonzero(rtype, res)

\* C28: the status of a DeleteResult is "ok" when created and stays "ok"
\* as long as no DELETE_PROBLEM arrives (no other event changes the
\* result); DELETE_PROBLEM with code 1, 2 or 3 sets it to "No such key",
\* "Must delete secret key first" or "Ambigious specification", and with
\* any other code to an "Unknown error" text that names the code.
C28_DeleteStatus ==
    [][rtype = "delete" =>
          /\ nHandled = 0 => res.status = <<"ok">>
          /\ lastEvent'[1] # "DELETE_PROBLEM" => res' = res
          /\ lastEvent'[1] = "DELETE_PROBLEM" =>
                 /\ handlerErr' = ""
                 /\ LET code == lastEvent'[2]
                    IN  CASE code = <<"1">> -> res'.status = <<"No such key">>
                          [] code = <<"2">> ->
                                res'.status = <<"Must delete secret key first">>
                          [] code = <<"3">> ->
                                res'.status = <<"Ambigious specification">>
                          [] OTHER ->
                                /\ res'.status[1] = "Unknown error: "
                                /\ Occurs(code, Tail(res'.status))]_vars

\* a key that needs its secret key deleted first, after a code outside the
\* table
C28_Witness ==
    /\ rtype = "delete" /\ nHandled = 2
    /\ lastEvent = <<"DELETE_PROBLEM", <<"2">>>>
    /\ res.status = <<"Must delete secret key first">>

----------------------------------------------------------------------------
(* Claims about the argument vector, checked under SpecArgs *)

\* the strings the user gave the constructor that it keeps as text
UserTexts ==
    {u \in {ctorIn.gpgbinary, ctorIn.gpghome, ctorIn.secring} : u # None}

\* the elements of cmd that come after the fixed ones
Extra == SubSeq(cmd, Len(FixedArgs(gpg, margs.passphrase)) + 1, Len(cmd))

OnlyAllowedFlags(e) == \A tok \in Range(Split(e)) : tok \in Allowed

\* C9: a string the user supplied occurs in an element of the argument
\* vector only inside its escaped form (the result of _fix_unsafe), and
\* every element that comes from the options and the per-call arguments
\* is made of allow-listed flags: no raw user text reaches the command line.
C9_NoRawUserText ==
    (margs.given /\ margs.err = "") =>
        /\ \A u \in UserTexts : \A i \in 1..Len(cmd) :
               Occurs(u, cmd[i]) => Occurs(FixUnsafe(u), cmd[i])
        /\ \A i \in 1..Len(Extra) : OnlyAllowedFlags(Extra[i])

\* the options in force at the make_args call, as the user gave them
RawOptions == IF gpg.options.t = "list" THEN gpg.options ELSE ctorIn.options

\* the options and per-call arguments supplied, one by one
SuppliedItems ==
    (IF margs.args.t = "list" THEN Range(margs.args.v) ELSE {})
    \cup (IF RawOptions.t = "list" THEN Range(RawOptions.v)
          ELSE IF RawOptions.t = "str" THEN {RawOptions.v} ELSE {})

Disallowed(item) == \A tok \in Range(Split(item)) : tok \notin Allowed

\* C10: whatever options and per-call arguments are supplied, none that is
\* not in the allow-list is an element of the list make_args returns, and
\* nothing that is not an allow-listed flag is in an element after the
\* fixed ones; when every option and argument supplied is disallowed the
\* list is exactly the fixed elements, which are four (binary path,
\* status and tty flags, homedir flag, keyring flags) in a call without
\* passphrase on an object that does not use the agent.
C10_OnlyAllowListedSurvive ==
    (margs.given /\ margs.err = "") =>
        /\ \A item \in SuppliedItems :
               item \notin Allowed => item \notin Range(cmd)
        /\ \A i \in 1..Len(Extra) : OnlyAllowedFlags(Extra[i])
        /\ (\A item \in SuppliedItems : Disallowed(item)) =>
               /\ cmd = FixedArgs(gpg, margs.passphrase)
               /\ (~margs.passphrase /\ ~gpg.use_agent) => Len(cmd) = 4

\* a call like that of test_make_args: disallowed options and arguments, no
\* passphrase, no agent, and a list of four elements
C10_Witness ==
    /\ margs.given /\ margs.err = ""
    /\ ~margs.passphrase /\ ~gpg.use_agent
    /\ gpg.options = ListArg(<<Bicycle, Train>>)
    /\ margs.args = ListArg(<<ListKeysName, Bicycle>>)
    /\ Len(cmd) = 4

\* what the command of a facade call has to hold: pairs of a flag and
\* an operand that goes with it
Required(f) ==
    CASE f.op = "encrypt_file" ->
             (IF f.symmetric
              THEN {<<Flag(<<"symmetric">>), <<>>>>}
              ELSE {<<Flag(<<"encrypt">>), f.keys[i]>> : i \in 1..Len(f.keys)})
             \cup (IF f.output # None
                   THEN {<<Flag(<<"output">>), f.output>>} ELSE {})
             \cup (IF f.sign # None
                   THEN {<<Flag(<<"default", "key">>), f.sign>>} ELSE {})
      [] f.op = "decrypt_file" ->
             {<<Flag(<<"decrypt">>), <<>>>>}
             \cup (IF f.output # None
                   THEN {<<Flag(<<"output">>), f.output>>} ELSE {})
      [] f.op = "sign_file" ->
             {<<<<HY, "sa">>, <<>>>>}
             \cup (IF f.sign # None
                   THEN {<<Flag(<<"default", "key">>), f.sign>>} ELSE {})
      [] f.op = "delete_keys" ->
             {<<Flag(<<"delete", "key">>), f.keys[i]>> : i \in 1..Len(f.keys)}
      [] f.op = "export_keys" ->
             {<<Flag(<<"export">>), f.keys[i]>> : i \in 1..Len(f.keys)}

\* the flag is in the command, and the operand in the same element of it
\* or in a later one
InCommand(flag, operand) ==
    \E i \in 1..Len(cmd) :
        /\ Occurs(flag, cmd[i])
        /\ \E j \in i..Len(cmd) : Occurs(operand, cmd[j])

\* C38: the command make_args builds for a facade operation holds the
\* operation's command flag together with its operands: --encrypt with
\* each recipient, the delete command with each fingerprint, the export
\* command with each key id, the signing flags with the default key,
\* --output with its path.
C38_FacadeCommandSurvives ==
    \A f \in FacadeCalls :
        (margs.given /\ margs.args = ListArg(FacadeArgs(f))) =>
            /\ margs.err = ""
            /\ \A r \in Required(f) : InCommand(r[1], r[2])

\* what the claims about encryption take of the gpg child: told --symmetric
\* it encrypts its input under the passphrase, told --encrypt under the keys
\* its command names, and otherwise it makes no ciphertext
NamedKeys(c, keys) ==
    {keys[i] : i \in
        {i \in 1..Len(keys) :
            \E j \in 1..Len(c) :
                /\ Occurs(Flag(<<"recipient">>), c[j])
                /\ \E k \in j..Len(c) : Occurs(keys[i], c[k])}}

Tells(c, flag) == \E i \in 1..Len(c) : Occurs(flag, c[i])

ChildEncrypts(c, keys, plain) ==
    IF Tells(c, Flag(<<"symmetric">>))
    THEN [made |-> TRUE, plain |-> plain, under |-> {<<"passphrase">>}]
    ELSE IF Tells(c, Flag(<<"encrypt">>)) /\ NamedKeys(c, keys) # {}
    THEN [made |-> TRUE, plain |-> plain, under |-> NamedKeys(c, keys)]
    ELSE [made |-> FALSE, plain |-> <<>>, under |-> {}]

\* told --decrypt, the child gives back the plaintext of a ciphertext made
\* under the key whose passphrase it is given
ChildDecrypts(c, cipher, key) ==
    IF Tells(c, Flag(<<"decrypt">>)) /\ cipher.made /\ key \in cipher.under
    THEN cipher.plain
    ELSE <<>>

Plaintext == <<"Hello">>

\* the command of gpg.decrypt(edata, passphrase=...)
DecryptCommand ==
    MakeArgsOf(gpg, ListArg(<<Flag(<<"decrypt">>)>>), TRUE).cmd

\* C32: encrypting a plaintext for a recipient key and decrypting the
\* ciphertext with the matching passphrase gives back the original bytes,
\* for one recipient, for several recipients (each of them can decrypt) and
\* in symmetric, passphrase-only mode.
C32_RoundTripReproducesPlaintext ==
    \A f \in FacadeCalls :
        (/\ f.op = "encrypt_file"
         /\ margs.given /\ margs.args = ListArg(FacadeArgs(f))
         /\ f.symmetric => margs.passphrase) =>
            /\ margs.err = ""
            /\ \A key \in (IF f.symmetric THEN {<<"passphrase">>}
                                           ELSE Range(f.keys)) :
                   ChildDecrypts(DecryptCommand,
                                 ChildEncrypts(cmd, f.keys, Plaintext),
                                 key) = Plaintext

----------------------------------------------------------------------------
(* Claims about the sanitiser and the line parser, checked under SpecFn *)

\* the function fn has been applied
Called(fn) == fnIn.given /\ fnIn.fn = fn

\* _sanitise has been applied to the one string s
SanitisedStr(s) == Called("_sanitise") /\ fnIn.arg = StrArg(s)

\* C11 as stated: for every flag f of the allow-list, _sanitise(f) returns
\* exactly f.
C11_SanitiseIsIdentity ==
    \A f \in Allowed : SanitisedStr(f) => fnOut.text = f /\ fnOut.err = ""

\* C11, amended: for every flag f of the allow-list, _sanitise(f) raises
\* nothing and returns f followed by one space, so that the result with its
\* surrounding whitespace stripped is f.
C11_SanitiseAppendsSpace ==
    \A f \in Allowed :
        SanitisedStr(f) =>
            /\ fnOut.err = ""
            /\ fnOut.text = f \o <<SP>>
            /\ Strip(fnOut.text) = f

\* _sanitise has been applied to the allow-listed flag --list-keys
C11_Witness ==
    /\ SanitisedStr(Flag(<<"list", "keys">>))
    /\ fnOut.text = Flag(<<"list", "keys">>) \o <<SP>>

\* the symbols of the class [A-Za-z0-9@%+=:,./_-]: runs of letters, runs of
\* digits and the punctuation the class names
InClass(c) == c \in {"ab", "7", "@", "%", "+", "=", ":", ",", ".", "/", US, HY}

\* s with each single quote replaced by quote, double-quote, quote,
\* double-quote, quote
RECURSIVE QuotesReplaced(_)
QuotesReplaced(s) ==
    IF s = <<>> THEN <<>>
    ELSE (IF Head(s) = SQ THEN <<SQ, DQ, SQ, DQ, SQ>> ELSE <<Head(s)>>)
         \o QuotesReplaced(Tail(s))

\* C12: _fix_unsafe returns s unchanged when s is made only of characters of
\* [A-Za-z0-9@%+=:,./_-]; for any other s it returns s between two single
\* quotes, each single quote of s replaced by the five characters quote,
\* double-quote, quote, double-quote, quote.
C12_FixUnsafe ==
    Called("_fix_unsafe") =>
        IF \A i \in 1..Len(fnIn.arg) : InClass(fnIn.arg[i])
        THEN fnOut = fnIn.arg
        ELSE fnOut = <<SQ>> \o QuotesReplaced(fnIn.arg) \o <<SQ>>

\* _fix_unsafe has been applied to a text that holds a single quote
C12_Witness ==
    /\ Called("_fix_unsafe")
    /\ fnIn.arg = <<"ab", SQ, "7">>
    /\ fnOut = <<SQ, "ab", SQ, DQ, SQ, DQ, SQ, "7", SQ>>

\* the flag an attribute-style name stands for: underscores as hyphens and
\* a leading "--" when the name has none
Normalized(w) == Hyphenate(w, ~(Len(w) >= 2 /\ w[1] = HY /\ w[2] = HY))

\* C13: an option given with underscores, such as list_keys or --list_keys,
\* is normalised to the hyphenated flag with a leading "--", and when that
\* flag is in the allow-list it is kept in the sanitised output.
C13_UnderscoreOptionKept ==
    \A w \in SanWords :
        (SanitisedStr(w) /\ FindPos(w, US) /\ Normalized(w) \in Allowed)
            => Normalized(w) \in Range(Split(fnOut.text))

\* C14: for an allow-listed flag followed by a value, as in "--import
\* <path>", the sanitised output is the flag followed by the escaped value
\* when the value names an existing non-empty file, and the flag alone when
\* the value fails the file check.
C14_FlagWithCheckedValue ==
    \A f \in SanWords \cap Allowed :
        \A v \in {w \in SanWords : ~IsFlagTok(w) /\ ~FindPos(w, US)} :
            SanitisedStr(JoinSp(<<f, v>>)) =>
                /\ fnOut.err = ""
                /\ Split(fnOut.text) =
                       IF v \in Files THEN <<f, FixUnsafe(v)>> ELSE <<f>>

InAllowList(w) == w \in Allowed

\* the words of the texts q, in order
RECURSIVE WordsOf(_)
WordsOf(q) == IF q = <<>> THEN <<>> ELSE Split(Head(q)) \o WordsOf(Tail(q))

\* one string of several flags, or a list of options, has been sanitised
SeveralFlags ==
    /\ SanitisedStr(fnIn.arg.v)
    /\ Len(Split(fnIn.arg.v)) >= 2
    /\ \A w \in Range(Split(fnIn.arg.v)) : IsFlagTok(w)
OptionList ==
    /\ Called("_sanitise") \/ Called("_sanitise_list")
    /\ fnIn.arg.t = "list"

\* C15: when a list of options, or one string of several flags, holds an
\* option that is not in the allow-list, only that option is dropped: no
\* error reaches the caller, and the result holds every allow-listed flag
\* of the input, in the order of the input, and nothing else.
C15_OnlyDisallowedDropped ==
    /\ SeveralFlags =>
           /\ fnOut.err = ""
           /\ Split(fnOut.text) = SelectSeq(Split(fnIn.arg.v), InAllowList)
    /\ OptionList =>
           /\ fnOut.err = ""
           /\ (IF fnIn.fn = "_sanitise" THEN Split(fnOut.text)
               ELSE WordsOf(fnOut.out)) = SelectSeq(fnIn.arg.v, InAllowList)

\* in one string, an option outside the allow-list stood between two
\* allow-listed flags
C15_Witness ==
    /\ SanitisedStr(JoinSp(<<Flag(<<"import">>), Bicycle, Flag(<<"encrypt">>)>>))
    /\ fnOut.err = ""
    /\ Split(fnOut.text) = <<Flag(<<"import">>), Flag(<<"encrypt">>)>>

\* the first position of line at or after from that holds no space
FirstWord(line, from) ==
    CHOOSE i \in from..Len(line) :
        line[i] # SP /\ \A j \in from..(i - 1) : line[j] = SP

\* the last position of line that holds no space
LastWord(line) ==
    CHOOSE i \in 1..Len(line) :
        line[i] # SP /\ \A j \in (i + 1)..Len(line) : line[j] = SP

BeginsWithMarker(line) == Len(line) >= 2 /\ line[1] = "[GNUPG:]" /\ line[2] = SP

----------------------------------------------------------------------------
(* Claims about the events of one call, checked under SpecSession *)

\* the keywords on which the handler of Crypt sets the status
StatusSetting(k) ==
    \E v \in StatusValues :
        CryptHandleStatus(CryptInit, k, v).r.status # CryptInit.status

\* the positions of events that hold a keyword of K
Positions(K) == {i \in 1..Len(events) : events[i] \in K}

Latest(I) == CHOOSE i \in I : \A j \in I : j <= i

FailedDecryption == {"BAD_PASSPHRASE", "DECRYPTION_FAILED"}

\* the events of a decrypt call (none of them END_ENCRYPTION, which closes
\* an encryption) include BAD_PASSPHRASE or DECRYPTION_FAILED, never
\* DECRYPTION_OKAY, and no status-setting keyword after the last of them
DecryptionFailed ==
    /\ rtype = "crypt"
    /\ Positions(FailedDecryption) # {}
    /\ Positions({"DECRYPTION_OKAY", "END_ENCRYPTION"}) = {}
    /\ \A i \in 1..Len(events) :
           (i > Latest(Positions(FailedDecryption))) => ~StatusSetting(events[i])

NotCompleted == Positions({"DECRYPTION_OKAY", "END_ENCRYPTION"}) = {}

\* the first event of a fresh Crypt was first; after it status is begun
\* and the result is falsy; it stays falsy as long as no completing event
\* has arrived; when the completing event last arrives, status is done and
\* the result is truthy
Completes(first, begun, last, done) ==
    (rtype = "crypt" /\ events # <<>> /\ events[1] = first) =>
        /\ Len(events) = 1 => res.status = Msg(begun) /\ ~res.ok
        /\ NotCompleted => ~res.ok
        /\ events[Len(events)] = last => res.status = Msg(done) /\ res.ok

ValidityKeys ==
    {"GOODSIG", "BADSIG", "ERRSIG", "NO_PUBKEY", "DECRYPTION_FAILED",
     "EXPKEYSIG", "REVKEYSIG"}

\* C20: a Verify is invalid when created; GOODSIG makes it valid and BADSIG,
\* ERRSIG, NO_PUBKEY, DECRYPTION_FAILED, EXPKEYSIG and REVKEYSIG make it
\* invalid, so that after any sequence of events the result is truthy
\* exactly when the most recent of these events was GOODSIG; no other
\* keyword, VALIDSIG, SIG_ID and TRUST_* among them, changes validity.
C20_ValidIffLatestIsGoodsig ==
    rtype = "verify" =>
        res.valid = (/\ Positions(ValidityKeys) # {}
                     /\ events[Latest(Positions(ValidityKeys))] = "GOODSIG")

\* a good signature was followed by an event that leaves validity alone
C20_Witness ==
    /\ rtype = "verify"
    /\ events = <<"GOODSIG", "VALIDSIG">>
    /\ res.valid

TrustKeys ==
    {"TRUST_UNDEFINED", "TRUST_NEVER", "TRUST_MARGINAL", "TRUST_FULLY",
     "TRUST_ULTIMATE"}

\* the number the claim gives each TRUST_* keyword
TrustNumber(k) ==
    CASE k = "TRUST_UNDEFINED" -> 0
      [] k = "TRUST_NEVER" -> 1
      [] k = "TRUST_MARGINAL" -> 2
      [] k = "TRUST_FULLY" -> 3
      [] k = "TRUST_ULTIMATE" -> 4

\* C21: after any sequence of status events the trust_text and trust_level
\* of a Verify agree: both are unset when no TRUST_* keyword has arrived,
\* and otherwise trust_text is the most recent TRUST_* keyword and
\* trust_level its number (UNDEFINED 0, NEVER 1, MARGINAL 2, FULLY 3,
\* ULTIMATE 4); no other keyword changes either field.
C21_TrustTextAndLevelAgree ==
    rtype = "verify" =>
        IF Positions(TrustKeys) = {}
        THEN res.trust_text = None /\ res.trust_level = NoneInt
        ELSE /\ res.trust_text = <<events[Latest(Positions(TrustKeys))]>>
             /\ res.trust_level = TrustNumber(events[Latest(Positions(TrustKeys))])

\* a trust keyword was followed by another, and that one is kept
C21_Witness ==
    /\ rtype = "verify"
    /\ events = <<"TRUST_NEVER", "TRUST_ULTIMATE">>
    /\ res.trust_text = <<"TRUST_ULTIMATE">> /\ res.trust_level = 4

\* C22: in a Verify, handling KEYEXPIRED or SIGEXPIRED raises nothing and
\* leaves every field unchanged; among the expiry and revocation keywords
\* only EXPKEYSIG and REVKEYSIG set the result invalid.
C22_ExpiryKeywordsChangeNothing ==
    [][rtype = "verify" =>
          /\ lastEvent'[1] \in {"KEYEXPIRED", "SIGEXPIRED"} =>
                 res' = res /\ handlerErr' = ""
          /\ lastEvent'[1] \in {"EXPKEYSIG", "REVKEYSIG"} => ~res'.valid]_vars

\* a good signature was followed by KEYEXPIRED and is still good
C22_Witness ==
    /\ rtype = "verify"
    /\ events = <<"GOODSIG", "KEYEXPIRED">>
    /\ res.valid /\ res.status = Msg("signature good")


\* C39: after any sequence of status events a Crypt result is truthy
\* exactly when DECRYPTION_OKAY or END_ENCRYPTION is among them: only these
\* two set ok, and no later event resets it, whatever it does to status.
C39_TruthyIffOkEventOccurred ==
    rtype = "crypt" =>
        /\ res.ok <=> Positions({"DECRYPTION_OKAY", "END_ENCRYPTION"}) # {}
        /\ Nonzero(rtype, res) <=> res.ok

\* a decryption that succeeded and then reported a failure: status is
\* overwritten, the result stays truthy
C39_Witness ==
    /\ rtype = "crypt"
    /\ events = <<"DECRYPTION_OKAY", "DECRYPTION_FAILED">>
    /\ res.status = Msg("decryption failed")
    /\ Nonzero(rtype, res)

\* the characters a POSIX shell gives a meaning to when they stand
\* unquoted in a word (the two quotes apart), and inside double quotes
ShellSpecial == {SP, ";", "$", "&", "|", "(", ")", "<", ">", "*", "\\", "\n"}
ShellSpecialInDQ == {"$", "\\"}

\* a text read as one word by a POSIX shell: outside quotes a single quote
\* opens a stretch that runs to the next single quote and is taken as it
\* stands, a double quote opens one that runs to the next double quote, and
\* every other character is taken as it stands unless the shell gives it a
\* meaning.  ok: the text is one whole word and no character of it was
\* interpreted; word: the text the word denotes.
RECURSIVE ShellRead(_, _, _)
ShellRead(text, mode, word) ==
    IF text = <<>> THEN [ok |-> mode = "plain", word |-> word]
    ELSE IF mode = "plain"
         THEN IF Head(text) = SQ THEN ShellRead(Tail(text), "sq", word)
              ELSE IF Head(text) = DQ THEN ShellRead(Tail(text), "dq", word)
              ELSE IF Head(text) \in ShellSpecial
                   THEN [ok |-> FALSE, word |-> word]
              ELSE ShellRead(Tail(text), "plain", Append(word, Head(text)))
    ELSE IF mode = "sq"
         THEN IF Head(text) = SQ THEN ShellRead(Tail(text), "plain", word)
              ELSE ShellRead(Tail(text), "sq", Append(word, Head(text)))
    ELSE IF Head(text) = DQ THEN ShellRead(Tail(text), "plain", word)
         ELSE IF Head(text) \in ShellSpecialInDQ
              THEN [ok |-> FALSE, word |-> word]
         ELSE ShellRead(Tail(text), "dq", Append(word, Head(text)))

\* C40: for every string s the text _fix_unsafe(s) returns is one word to a
\* POSIX shell, and the word denotes exactly s: no character of s is
\* interpreted, and a single quote of s does not end the quoting.
C40_FixUnsafeDenotesInput ==
    Called("_fix_unsafe") =>
        /\ fnOut # <<>>
        /\ ShellRead(fnOut, "plain", <<>>) = [ok |-> TRUE, word |-> fnIn.arg]

----------------------------------------------------------------------------
(* Claims about list_keys, checked under SpecFn *)

\* the keyword of a line of the listing: its text before the first colon,
\* the spaces around the line set aside
KeywordOfLine(line) ==
    LET t == Strip(line)
    IN  IF t # <<>> /\ t[1] # ":" /\ (Len(t) = 1 \/ t[2] = ":")
        THEN t[1] ELSE ""

IsKeyLine(line) == KeywordOfLine(line) \in {"pub", "sec"}

IsDetailLine(line) == KeywordOfLine(line) \in {"uid", "fpr", "sub"}

\* the fifth field of a line, the key id of a pub or sec line
KeyIdOfLine(line) ==
    LET L == SplitOn(Strip(line), ":")
    IN  IF Len(L) >= 5 THEN L[5] ELSE <<>>

\* the lines that come before the first empty line
BeforeBlank(lines) ==
    IF \E i \in 1..Len(lines) : lines[i] = <<>>
    THEN SubSeq(lines, 1,
                (CHOOSE i \in 1..Len(lines) :
                    lines[i] = <<>> /\ \A j \in 1..(i - 1) : lines[j] # <<>>) - 1)
    ELSE lines

\* which records a list holds, in order: the type and key id of each
RecordIds(keys) == [i \in 1..Len(keys) |-> <<keys[i].type, keys[i].keyid>>]

\* the records the pub and sec lines among some lines call for, in order
RecordsFor(lines) ==
    LET K == SelectSeq(lines, IsKeyLine)
    IN  [i \in 1..Len(K) |-> <<<<KeywordOfLine(K[i])>>, KeyIdOfLine(K[i])>>]

\* records are only added at the end of the list
AppendOnly ==
    fnIn.given =>
        /\ Len(res.keys) <= Len(res'.keys)
        /\ SubSeq(RecordIds(res'.keys), 1, Len(res.keys)) = RecordIds(res.keys)

\* C29 as stated: the result list_keys returns holds exactly one record
\* for each pub or sec line of the whole output, in the order of the lines
\* (so none when there is no such line), and records are only appended.
C29_OneRecordPerKeyLine ==
    [][fnIn'.given /\ fnIn'.fn = "list_keys" =>
          /\ AppendOnly
          /\ fnOut'.pc = "returned" =>
                 RecordIds(res'.keys) = RecordsFor(fnIn'.arg)]_vars

\* C29, amended: the result list_keys returns holds exactly one record for
\* each pub or sec line that comes before the first empty line of the
\* output, in the order of the lines (so none when there is no such line),
\* and records are only appended, never removed or reordered.
C29_OneRecordPerKeyLineBeforeBlank ==
    [][fnIn'.given /\ fnIn'.fn = "list_keys" =>
          /\ AppendOnly
          /\ fnOut'.pc = "returned" =>
                 RecordIds(res'.keys) = RecordsFor(BeforeBlank(fnIn'.arg))]_vars

\* a public key, its fingerprint and a secret key: two records, in the
\* order of their lines
C29_Witness ==
    /\ Called("list_keys") /\ fnOut.pc = "returned"
    /\ Len(fnIn.arg) = 3
    /\ KeywordOfLine(fnIn.arg[1]) = "pub"
    /\ KeywordOfLine(fnIn.arg[2]) = "fpr"
    /\ KeywordOfLine(fnIn.arg[3]) = "sec"
    /\ RecordIds(res.keys) = <<<<<<"pub">>, <<"K1">>>>, <<<<"sec">>, <<"K2">>>>>>
    /\ res.keys[1].fingerprint = <<"F1">>

\* C30: a uid, fpr or sub line that list_keys processes when no pub or sec
\* line came before it is rejected with an error, and the key list and the
\* lists of all fingerprints and of all uids are as they were before it.
C30_DetailWithoutKeyRejected ==
    [][/\ Called("list_keys") /\ fnOut.pc = "loop"
       /\ fnOut.pos < Len(fnIn.arg)
       /\ IsDetailLine(fnIn.arg[fnOut.pos + 1])
       /\ \A i \in 1..fnOut.pos : ~IsKeyLine(fnIn.arg[i])
       => /\ fnOut'.pc = "raised" /\ fnOut'.err # ""
          /\ res'.keys = res.keys
          /\ res'.fingerprints = res.fingerprints
          /\ res'.uids = res.uids]_vars

\* a uid line after a line of another kind, and no key line before it
C30_Witness ==
    /\ Called("list_keys") /\ fnOut.pc = "raised"
    /\ fnOut.err = "TypeError"
    /\ fnOut.pos = 1
    /\ KeywordOfLine(fnIn.arg[1]) = "tru"
    /\ KeywordOfLine(fnIn.arg[2]) = "uid"
    /\ res.keys = <<>> /\ res.fingerprints = <<>> /\ res.uids = <<>>


\* C34: a fpr, uid or sub line that list_keys accepts changes only the
\* record started last, which is the last of the list, and the lists of all
\* fingerprints and uids: the list keeps its length and every earlier
\* record; fpr sets the fingerprint of the last record to its tenth field
\* and appends it to the fingerprints; uid appends one uid to the uids and
\* leaves the fingerprints; sub leaves both.
C34_DetailChangesLastRecordOnly ==
    [][/\ Called("list_keys") /\ fnOut.pc = "loop" /\ fnOut'.pc = "loop"
       /\ fnOut.pos < Len(fnIn.arg)
       /\ IsDetailLine(fnIn.arg[fnOut.pos + 1])
       => LET n == Len(res.keys)
              kw == KeywordOfLine(fnIn.arg[fnOut.pos + 1])
              L == SplitOn(Strip(fnIn.arg[fnOut.pos + 1]), ":")
          IN  /\ n >= 1 /\ Len(res'.keys) = n
              /\ \A i \in 1..(n - 1) : res'.keys[i] = res.keys[i]
              /\ kw = "fpr" =>
                     /\ res'.keys[n] = ("fingerprint" :> L[10]) @@ res.keys[n]
                     /\ res'.fingerprints = Append(res.fingerprints, L[10])
                     /\ res'.uids = res.uids
              /\ kw = "uid" =>
                     /\ Len(res'.uids) = Len(res.uids) + 1
                     /\ SubSeq(res'.uids, 1, Len(res.uids)) = res.uids
                     /\ res'.keys[n].uids =
                            Append(res.keys[n].uids, res'.uids[Len(res'.uids)])
                     /\ res'.fingerprints = res.fingerprints
              /\ kw = "sub" =>
                     /\ res'.fingerprints = res.fingerprints
                     /\ res'.uids = res.uids
                     /\ Len(res'.keys[n].subkeys) = Len(res.keys[n].subkeys) + 1]_vars

\* two keys and then a fingerprint: the second record has it, the first
\* has none
C34_Witness ==
    /\ Called("list_keys") /\ fnOut.pc = "returned" /\ fnOut.pos = 3
    /\ KeywordOfLine(fnIn.arg[3]) = "fpr"
    /\ Len(res.keys) = 2
    /\ "fingerprint" \notin DOMAIN res.keys[1]
    /\ res.keys[2].fingerprint = <<"F1">>
    /\ res.fingerprints = <<<<"F1">>>>

----------------------------------------------------------------------------
(* Claims about gen_key_input, checked under SpecFn *)

\* the parameter name a keyword argument stands for
NormalName(key) ==
    CASE key = <<"key", US, "type">> -> <<"Key", HY, "Type">>
      [] key = <<"KEY", US, "LENGTH">> -> <<"Key", HY, "Length">>
      [] key = <<"name", US, "real">> -> <<"Name", HY, "Real">>
      [] key = <<"name", US, "email">> -> <<"Name", HY, "Email">>
      [] key = <<"expire", US, "date">> -> <<"Expire", HY, "Date">>

\* the parameters given with a value that is not empty nor only spaces
Supplied(kwargs) ==
    {<<NormalName(kwargs[i][1]), kwargs[i][2]>> :
        i \in {j \in 1..Len(kwargs) : Strip(kwargs[j][2]) # <<>>}}

\* the defaults of the five parameters that have one
Defaults(env) ==
    {<<<<"Key", HY, "Type">>, <<"RSA">>>>,
     <<<<"Key", HY, "Length">>, <<"2048">>>>,
     <<<<"Name", HY, "Real">>, <<"Autogenerated Key">>>>,
     <<<<"Name", HY, "Comment">>, <<"Generated by gnupg.py">>>>,
     <<<<"Name", HY, "Email">>,
       Replace(IF env.LOGNAME # None THEN env.LOGNAME ELSE env.USERNAME,
               SP, <<US>>) \o <<"@">> \o env.hostname>>}

\* the parameters of the block: those supplied, and the default of each
\* parameter that is absent
BlockParms(kwargs, env) ==
    Supplied(kwargs) \cup
        {d \in Defaults(env) : \A p \in Supplied(kwargs) : p[1] # d[1]}

\* C31: gen_key_input returns a block whose first line is the Key-Type
\* line and whose last line is %commit, with exactly one "Name: value" line
\* for each parameter: the supplied ones under their title-cased hyphen
\* names with their values, a value that is empty or only spaces counting
\* as absent, and the defaults of the absent ones among the five.
C31_GenKeyInputBlock ==
    Called("gen_key_input") =>
        /\ fnOut.err = ""
        /\ LET lines == SplitOn(fnOut.out, "\n")
               n == Len(lines)
               parms == BlockParms(fnIn.arg.kwargs, fnIn.arg.env)
           IN  /\ n >= 3
               /\ SubSeq(lines[1], 1, 5) = <<"Key", HY, "Type", ":", SP>>
               /\ lines[n - 1] = <<"%commit">> /\ lines[n] = <<>>
               /\ n - 2 = Cardinality(parms)
               /\ {lines[i] : i \in 1..(n - 2)} =
                      {p[1] \o <<":", SP>> \o p[2] : p \in parms}

====
